---- MODULE Spec2Model ----
(***************************************************************************)
(* Premios de la Quincena: the transaction categorizer (lib/categorizer.ts)*)
(* and the award engine (lib/awards.ts).                                   *)
(*                                                                         *)
(* Strings are sequences of one-character strings, so that substring,      *)
(* prefix and regular-expression matching are computed, not assumed.       *)
(***************************************************************************)
EXTENDS Integers, Sequences, FiniteSets, TLC

VARIABLES
  pc,           \* position of the run: "start", then the name of the step taken
  description,  \* categorize: the description handed in
  category,     \* categorize: the label returned ("none" before the call)
  kw,           \* kwMatches: the keyword tested
  matched,      \* kwMatches: the result ("none" before the call)
  txns,         \* handleFile: the transactions parseFile returned
  categorized,  \* handleFile: categorizeTransactions(txns)
  awards,       \* handleFile: calculateAwards(categorized)
  monthA,       \* isNextMonth: the month a
  monthB,       \* isNextMonth: the month b
  nextMonth,    \* isNextMonth: the result (FALSE before the call)
  history,      \* the rows of the session's history, ascending by month
  streaks,      \* findCurrentStreaks(history)
  store,        \* the table quincena_results: a set of rows
  month,        \* handleFile: getMostCommonMonth(txns) (<<>> before it is set)
  results,      \* Home: the state results (<<>> for null, else <<value>>)
  loading,      \* Home: the state loading
  error,        \* Home: the state error ("null" or the message)
  upsertErr,    \* handleFile: the error of the upsert ("null" or the message)
  previous,     \* the table as it was when handleFile was called
  walk          \* sobrevivienteExtremo: the variables of the while loop

streakVars == <<monthA, monthB, nextMonth, history, streaks>>

pageVars == <<store, month, results, loading, error, upsertErr, previous>>

vars ==
  <<pc, description, category, kw, matched, txns, categorized, awards,
    streakVars, pageVars, walk>>

(* The variables of the streak detector and of the page before any use. *)
StreaksIdle ==
  /\ monthA = <<>>
  /\ monthB = <<>>
  /\ nextMonth = FALSE
  /\ history = <<>>
  /\ streaks = <<>>

PageIdle ==
  /\ store = {}
  /\ month = <<>>
  /\ results = <<>>
  /\ loading = FALSE
  /\ error = "null"
  /\ upsertErr = "null"
  /\ previous = {}

(***************************************************************************)
(* Bounds of the explored inputs.                                          *)
(***************************************************************************)
MaxTokens == 3      \* a description is a concatenation of at most this many tokens
MaxDescLen == 4     \* kwMatches: length of the descriptions over the small alphabet
MaxTxns == 3        \* transactions of a statement of the mixed family
MaxBancoTxns == 5   \* transactions of a statement of the weekend family
MaxComboTxns == 6   \* transactions of a statement of the counting family
MaxBalanceTxns == 3 \* transactions of a statement of the balance family
MaxCentavosTxns == 3 \* transactions of a statement of the centavos family
PermLen == 3        \* lists up to this length are checked on each of their permutations

Range(s) == {s[i] : i \in 1..Len(s)}

RECURSIVE Flatten(_)
Flatten(ss) == IF ss = <<>> THEN <<>> ELSE Head(ss) \o Flatten(Tail(ss))

SeqsUpTo(S, n) == UNION {[1..k -> S] : k \in 0..n}

(***************************************************************************)
(* lib/categorizer.ts                                                      *)
(***************************************************************************)
CATEGORIES ==
  {"convenience_store", "rideshare", "food_delivery", "restaurant_cafe",
   "supermarket", "cash_withdrawal", "subscription_gym", "ecommerce",
   "pharmacy_health", "spei_transfer", "bank_fee", "gas_transport",
   "education", "other"}

KEYWORDS ==
  [ food_delivery |-> <<
      <<"u","b","e","r"," ","e","a","t","s">>,
      <<"u","b","e","r","e","a","t","s">>,
      <<"u","b","e","r","*","e","a","t","s">>,
      <<"u","b","r","e","a","t","s">>,
      <<"r","a","p","p","i">>,
      <<"d","i","d","i"," ","f","o","o","d">>,
      <<"d","i","d","i","f","o","o","d">>,
      <<"d","i","d","i","*","f","o","o","d">>,
      <<"s","i","n"," ","d","e","l","a","n","t","a","l">>,
      <<"j","u","s","t","o">>,
      <<"c","o","r","n","e","r","s","h","o","p">>
    >>,
    rideshare |-> <<
      <<"u","b","e","r">>,
      <<"d","i","d","i">>,
      <<"c","a","b","i","f","y">>,
      <<"b","e","a","t">>,
      <<"i","n"," ","d","r","i","v","e","r">>,
      <<"i","n","d","r","i","v","e","r">>
    >>,
    bank_fee |-> <<
      <<"c","o","m","i","s","i","o","n">>,
      <<"a","n","u","a","l","i","d","a","d">>,
      <<"c","a","r","g","o"," ","p","o","r">>,
      <<"i","v","a"," ","c","o","m","i","s","i","o","n">>,
      <<"i","n","t","e","r","e","s">>,
      <<"p","e","n","a","l","i","z","a","c","i","o","n">>,
      <<"c","a","r","g","o"," ","m","e","n","s","u","a","l">>,
      <<"m","a","n","t","e","n","i","m","i","e","n","t","o">>,
      <<"c","o","b","r","o"," ","a","u","t","o","m","a","t","i","c","o"," ","s","e","g","u","r","o">>
    >>,
    cash_withdrawal |-> <<
      <<"r","e","t","i","r","o">>,
      <<"c","a","j","e","r","o">>,
      <<"a","t","m">>,
      <<"d","i","s","p","o","s","i","c","i","o","n">>,
      <<"e","f","e","c","t","i","v","o">>,
      <<"b","a","n","a","m","e","x"," ","a","t","m">>,
      <<"h","s","b","c"," ","a","t","m">>,
      <<"b","b","v","a"," ","a","t","m">>,
      <<"s","a","n","t","a","n","d","e","r"," ","a","t","m">>,
      <<"s","c","o","t","i","a","b","a","n","k"," ","a","t","m">>
    >>,
    spei_transfer |-> <<
      <<"s","p","e","i">>,
      <<"t","r","a","n","s","f","e","r","e","n","c","i","a">>,
      <<"t","r","a","s","p","a","s","o">>,
      <<"e","n","v","i","o">>,
      <<"p","a","g","o"," ","a">>,
      <<"c","o","d","i">>,
      <<"c","o","d","i"," ","p","a","g","o">>,
      <<"m","e","r","c","a","d","o","p","a","g","o">>,
      <<"m","e","r","c","a","d","o"," ","p","a","g","o">>,
      <<"c","l","i","p">>,
      <<"c","o","n","e","k","t","a">>
    >>,
    subscription_gym |-> <<
      <<"s","m","a","r","t","f","i","t">>,
      <<"s","p","o","r","t"," ","c","i","t","y">>,
      <<"s","p","o","r","t","c","i","t","y">>,
      <<"g","y","m">>,
      <<"g","i","m","n","a","s","i","o">>,
      <<"n","e","t","f","l","i","x">>,
      <<"s","p","o","t","i","f","y">>,
      <<"d","i","s","n","e","y","+">>,
      <<"d","i","s","n","e","y">>,
      <<"h","b","o"," ","m","a","x">>,
      <<"h","b","o">>,
      <<"a","p","p","l","e">>,
      <<"g","o","o","g","l","e">>,
      <<"m","i","c","r","o","s","o","f","t">>,
      <<"a","m","a","z","o","n"," ","p","r","i","m","e">>,
      <<"p","a","r","a","m","o","u","n","t">>,
      <<"o","p","e","n","a","i">>,
      <<"c","h","a","t","g","p","t">>,
      <<"c","l","a","u","d","e">>,
      <<"d","r","o","p","b","o","x">>,
      <<"i","c","l","o","u","d">>,
      <<"y","o","u","t","u","b","e"," ","p","r","e","m","i","u","m">>,
      <<"z","o","o","m">>,
      <<"s","l","a","c","k">>,
      <<"n","o","t","i","o","n">>,
      <<"d","u","o","l","i","n","g","o">>,
      <<"c","r","u","n","c","h","y","r","o","l","l">>,
      <<"t","w","i","t","c","h">>,
      <<"p","l","a","t","a","+">>,
      <<"s","u","s","c","r","i","p","c","i","o","n"," ","p","l","a","t","a">>,
      <<"s","t","o","r","y","t","e","l">>,
      <<"d","o","c","h","u","b">>
    >>,
    gas_transport |-> <<
      <<"g","a","s","o","l","i","n","e","r","i","a">>,
      <<"g","a","s","o","l","i","n","e","r","a">>,
      <<"g","a","s","o","l","i","n","a">>,
      <<"o","x","x","o"," ","g","a","s">>,
      <<"e","s","t","a","c","i","o","n"," ","d","e"," ","s","e","r","v","i","c","i","o">>,
      <<"e","s","t","a","c","i","o","n"," ","d","e"," ","g","a","s">>,
      <<"e","s","t","a","c","i","o","n"," ">>,
      <<"^","e","s","t"," ">>,
      <<"p","e","m","e","x">>,
      <<"b","p">>,
      <<"s","h","e","l","l">>,
      <<"m","o","b","i","l">>,
      <<"m","e","t","r","o">>,
      <<"m","e","t","r","o","b","u","s">>,
      <<"t","r","o","l","e","b","u","s">>,
      <<"e","c","o","b","i","c","i">>,
      <<"t","r","e","n">>,
      <<"g","a","s">>
    >>,
    convenience_store |-> <<
      <<"o","x","x","o">>,
      <<"7","-","e","l","e","v","e","n">>,
      <<"s","e","v","e","n"," ","e","l","e","v","e","n">>,
      <<"7","e","l","e","v","e","n">>,
      <<"7"," ","e","l","e","v","e","n">>,
      <<"c","i","r","c","l","e"," ","k">>,
      <<"c","i","r","c","l","e","k">>,
      <<"s","i","x">>,
      <<"e","x","t","r","a">>,
      <<"k","i","o","s","k","o">>,
      <<"f","a","r","m","a","c","i","a","s"," ","g","u","a","d","a","l","a","j","a","r","a">>,
      <<"f","a","r","m","a","c","i","a"," ","g","u","a","d","a","l","a","j","a","r","a">>,
      <<"c","h","e","d","r","a","u","i">>,
      <<"b","o","d","e","g","a"," ","a","u","r","r","e","r","a">>,
      <<"a","u","r","r","e","r","a">>,
      <<"w","a","l","m","a","r","t"," ","e","x","p","r","e","s","s">>,
      <<"w","a","l","m","a","r","t","e","x","p","r","e","s","s">>,
      <<"s","e","v","e","n"," ","1","1">>,
      <<"m","i","n","i"," ","s","u","p","e","r">>,
      <<"m","i","n","i","s","u","p","e","r">>,
      <<"s","u","p","e","r"," ","p","e","c","h","e">>,
      <<"a","b","a","r","r","o","t","e","s">>,
      <<"m","i","s","c","e","l","a","n","e","a">>
    >>,
    restaurant_cafe |-> <<
      <<"k","o","i">>,
      <<"c","a","f","e">>,
      <<"c","o","f","f","e","e">>,
      <<"s","t","a","r","b","u","c","k","s">>,
      <<"r","e","s","t","a","u","r","a","n","t">>,
      <<"r","e","s","t","a","u","r","a","n","t","e">>,
      <<"^","r","e","s","t"," ">>,
      <<"t","a","c","o">>,
      <<"t","a","c","o","s">>,
      <<"s","u","s","h","i">>,
      <<"p","i","z","z","a">>,
      <<"b","u","r","g","e","r">>,
      <<"h","a","m","b","u","r","g","u","e","s","a">>,
      <<"s","u","b","w","a","y">>,
      <<"k","f","c">>,
      <<"m","c","d","o","n","a","l","d","s">>,
      <<"d","o","m","i","n","o","s">>,
      <<"v","i","p","s">>,
      <<"s","a","n","b","o","r","n","s">>,
      <<"e","l"," ","p","e","s","c","a","d","o","r">>,
      <<"l","a"," ","n","a","c","i","o","n","a","l">>,
      <<"c","i","e","l","i","t","o"," ","q","u","e","r","i","d","o">>,
      <<"p","u","n","t","a"," ","d","e","l"," ","c","i","e","l","o">>,
      <<"p","r","o","s","c","e","n","i","o">>,
      <<"j","o","s","e","l","o">>,
      <<"y","a","n","g","g","u","o","f","u">>,
      <<"g","r","a","n","o","l","a">>
    >>,
    supermarket |-> <<
      <<"w","a","l","m","a","r","t">>,
      <<"s","a","m","s"," ","c","l","u","b">>,
      <<"s","a","m","'","s">>,
      <<"c","o","s","t","c","o">>,
      <<"s","o","r","i","a","n","a">>,
      <<"c","h","e","d","r","a","u","i">>,
      <<"l","a"," ","c","o","m","e","r">>,
      <<"c","i","t","y"," ","m","a","r","k","e","t">>,
      <<"f","r","e","s","k","o">>,
      <<"s","u","p","e","r","a","m","a">>,
      <<"h","e","b">>,
      <<"s","e","l","e","c","t","o">>,
      <<"m","e","g","a">>,
      <<"c","o","m","e","r","c","i","a","l"," ","m","e","x","i","c","a","n","a">>
    >>,
    pharmacy_health |-> <<
      <<"f","a","r","m","a","c","i","a">>,
      <<"f","a","r","m","a","c","i","a","s">>,
      <<"s","i","m","i","l","a","r","e","s">>,
      <<"f","a","r","m","a","c","i","a"," ","d","e","l"," ","a","h","o","r","r","o">>,
      <<"b","e","n","a","v","i","d","e","s">>,
      <<"c","r","u","z"," ","v","e","r","d","e">>,
      <<"s","a","n"," ","p","a","b","l","o">>,
      <<"f","a","r","m","a","c","i","a","s"," ","s","a","n"," ","p","a","b","l","o">>,
      <<"^","d","r"," ">>,
      <<"d","o","c","t","o","r"," ">>,
      <<"d","r","a"," ">>,
      <<"h","o","s","p","i","t","a","l">>,
      <<"c","l","i","n","i","c","a">>,
      <<"l","a","b","o","r","a","t","o","r","i","o">>,
      <<"d","e","n","t","i","s","t","a">>,
      <<"o","p","t","i","c","a">>
    >>,
    ecommerce |-> <<
      <<"a","m","a","z","o","n">>,
      <<"m","e","r","c","a","d","o"," ","l","i","b","r","e">>,
      <<"m","e","r","c","a","d","o","l","i","b","r","e">>,
      <<"m","e","l","i">>,
      <<"s","h","e","i","n">>,
      <<"a","l","i","e","x","p","r","e","s","s">>,
      <<"l","i","v","e","r","p","o","o","l">>,
      <<"p","a","l","a","c","i","o"," ","d","e"," ","h","i","e","r","r","o">>,
      <<"z","a","r","a">>,
      <<"h","&","m">>,
      <<"p","u","l","l"," ","a","n","d"," ","b","e","a","r">>,
      <<"b","e","r","s","h","k","a">>,
      <<"p","r","i","v","a","l","i","a">>,
      <<"l","i","n","i","o">>,
      <<"w","i","s","h">>,
      <<"e","b","a","y">>,
      <<"p","a","y","p","a","l">>,
      <<"o","f","f","i","c","e"," ","d","e","p","o","t">>,
      <<"o","f","f","i","c","e","d","e","p","o","t">>,
      <<"f","e","d","e","x">>,
      <<"s","t","a","p","l","e","s">>
    >>,
    education |-> <<
      <<"c","o","l","e","g","i","o">>,
      <<"e","s","c","u","e","l","a">>,
      <<"u","n","i","v","e","r","s","i","d","a","d">>,
      <<"i","n","s","c","r","i","p","c","i","o","n">>,
      <<"c","o","l","e","g","i","a","t","u","r","a">>,
      <<"c","o","u","r","s","e","r","a">>,
      <<"u","d","e","m","y">>,
      <<"p","l","a","t","z","i">>
    >> ]

(* Mutant of PRIORITY: convenience_store tested before gas_transport. *)
PRIORITY_StoreBeforeGas ==
  <<"food_delivery", "rideshare", "bank_fee", "cash_withdrawal",
    "spei_transfer", "subscription_gym", "convenience_store", "gas_transport",
    "restaurant_cafe", "supermarket", "pharmacy_health", "ecommerce",
    "education">>

PRIORITY ==
  <<"food_delivery", "rideshare", "bank_fee", "cash_withdrawal",
    "spei_transfer", "subscription_gym", "gas_transport", "convenience_store",
    "restaurant_cafe", "supermarket", "pharmacy_health", "ecommerce",
    "education">>

(* String.prototype.toLowerCase on the ASCII letters. *)
UPPER == <<"A","B","C","D","E","F","G","H","I","J","K","L","M",
           "N","O","P","Q","R","S","T","U","V","W","X","Y","Z">>
LOWER == <<"a","b","c","d","e","f","g","h","i","j","k","l","m",
           "n","o","p","q","r","s","t","u","v","w","x","y","z">>

toLowerCase(s) ==
  [i \in 1..Len(s) |->
     IF \E k \in 1..26 : UPPER[k] = s[i]
       THEN LOWER[CHOOSE k \in 1..26 : UPPER[k] = s[i]]
       ELSE s[i]]

(* String.prototype.startsWith / includes *)
startsWith(s, p) == Len(p) <= Len(s) /\ SubSeq(s, 1, Len(p)) = p

includes(s, p) ==
  \E i \in 1..(Len(s) - Len(p) + 1) : SubSeq(s, i, i + Len(p) - 1) = p

(* The characters the escape of kwMatches puts a backslash before:         *)
(* /[.+?^${}()|[\]\\]/g                                                     *)
REGEX_SPECIAL == {".", "+", "?", "^", "$", "{", "}", "(", ")", "|", "[", "]", "\\"}

(* The line terminators, which "." of a RegExp without the s flag does not *)
(* match.                                                                  *)
LINE_TERMINATORS == {"\n", "\r"}

(* base.replace(/[.+?^${}()|[\]\\]/g, "\\$&") *)
RECURSIVE escapeRegExp(_)
escapeRegExp(s) ==
  IF s = <<>> THEN <<>>
  ELSE IF Head(s) \in REGEX_SPECIAL
         THEN <<"\\", Head(s)>> \o escapeRegExp(Tail(s))
         ELSE <<Head(s)>> \o escapeRegExp(Tail(s))

(* escaped.replace(/\*/g, ".*") *)
RECURSIVE replaceStar(_)
replaceStar(s) ==
  IF s = <<>> THEN <<>>
  ELSE IF Head(s) = "*"
         THEN <<".", "*">> \o replaceStar(Tail(s))
         ELSE <<Head(s)>> \o replaceStar(Tail(s))

(* new RegExp(pattern): the pattern read as a sequence of atoms.  The      *)
(* patterns kwMatches builds hold only \c (the character c), .* and plain  *)
(* characters, and ^ only as their first character.                        *)
RECURSIVE compileRegExp(_)
compileRegExp(p) ==
  IF p = <<>> THEN <<>>
  ELSE IF Head(p) = "\\" /\ Len(p) >= 2
         THEN <<[atom |-> "char", c |-> p[2]]>> \o compileRegExp(Tail(Tail(p)))
  ELSE IF Head(p) = "." /\ Len(p) >= 2 /\ p[2] = "*"
         THEN <<[atom |-> "dotstar", c |-> "."]>> \o compileRegExp(Tail(Tail(p)))
  ELSE IF Head(p) = "^"
         THEN <<[atom |-> "bol", c |-> "^"]>> \o compileRegExp(Tail(p))
  ELSE <<[atom |-> "char", c |-> Head(p)]>> \o compileRegExp(Tail(p))

(* Whether atoms k.. of the compiled pattern match s from position pos.    *)
RECURSIVE matchAt(_, _, _, _)
matchAt(atoms, k, s, pos) ==
  IF k > Len(atoms) THEN TRUE
  ELSE LET a == atoms[k] IN
    CASE a.atom = "bol" -> pos = 1 /\ matchAt(atoms, k + 1, s, pos)
      [] a.atom = "char" ->
           pos <= Len(s) /\ s[pos] = a.c /\ matchAt(atoms, k + 1, s, pos + 1)
      [] a.atom = "dotstar" ->
           \E q \in pos..(Len(s) + 1) :
             /\ \A j \in pos..(q - 1) : s[j] \notin LINE_TERMINATORS
             /\ matchAt(atoms, k + 1, s, q)

(* RegExp.prototype.test: a match starting at some position of s. *)
regExpTest(pattern, s) ==
  LET atoms == compileRegExp(pattern)
  IN  \E pos \in 1..(Len(s) + 1) : matchAt(atoms, 1, s, pos)

kwMatches(desc, k) ==
  LET anchored == startsWith(k, <<"^">>)
      base == IF anchored THEN Tail(k) ELSE k
  IN  IF "*" \in Range(base)
        THEN LET escaped == escapeRegExp(base)
                 pattern == (IF anchored THEN <<"^">> ELSE <<>>) \o replaceStar(escaped)
             IN  regExpTest(pattern, desc)
        ELSE IF anchored THEN startsWith(desc, base)
        ELSE includes(desc, base)

(* Mutant of rideshareExcluded: only "eats" excludes. *)
rideshareExcluded_EatsOnly(d) == includes(d, <<"e","a","t","s">>)

(* The rideshare exclusion of categorize. *)
rideshareExcluded(d) ==
  \/ includes(d, <<"e","a","t","s">>)
  \/ includes(d, <<"f","o","o","d">>)
  \/ includes(d, <<"r","a","p","p","i">>)

someKeywordMatches(d, cat) ==
  \E j \in 1..Len(KEYWORDS[cat]) : kwMatches(d, KEYWORDS[cat][j])

(* The loop of categorize over PRIORITY, from index i on. *)
RECURSIVE categorizeFrom(_, _)
categorizeFrom(d, i) ==
  IF i > Len(PRIORITY) THEN "other"
  ELSE LET cat == PRIORITY[i] IN
    IF cat = "rideshare" /\ rideshareExcluded(d) THEN categorizeFrom(d, i + 1)
    ELSE IF someKeywordMatches(d, cat) THEN cat
    ELSE categorizeFrom(d, i + 1)

(* Mutant of categorize: the final return "other" is missing. *)
categorize_NoFallback(desc) ==
  LET c == categorizeFrom(toLowerCase(desc), 1)
  IN  IF c = "other" THEN "undefined" ELSE c

categorize(desc) == categorizeFrom(toLowerCase(desc), 1)

(***************************************************************************)
(* lib/awards.ts                                                           *)
(*                                                                         *)
(* A date string "YYYY-MM-DD" is the triple <<y, m, d>>; the strings are   *)
(* of fixed width, so comparing them is comparing the triples              *)
(* lexicographically.                                                      *)
(***************************************************************************)
(***************************************************************************)
(* The type number.                                                        *)
(*                                                                         *)
(* A number is an IEEE-754 double: its sign, its integer part and the set  *)
(* of the exponents b < 0 of the powers 2^b that make up its fractional    *)
(* part.  The magnitudes met here stay below 2^31, so the integer part is  *)
(* a TLA+ integer and only bits of the fraction can fall outside the 53    *)
(* bits of the significand.  Zero is kept without a sign.                  *)
(***************************************************************************)
PRECISION == 53

Max(S) == CHOOSE x \in S : \A y \in S : x >= y

Min(S) == CHOOSE x \in S : \A y \in S : x <= y

whole(n) == [neg |-> n < 0, units |-> IF n < 0 THEN -n ELSE n, frac |-> {}]

zero == whole(0)

(* The loop of sobrevivienteExtremo before it is entered; visited lists    *)
(* the values current has had in the body of the loop.                     *)
WalkIdle ==
  walk = [current |-> <<>>, lastDate |-> <<>>, running |-> zero,
          lowest |-> <<>>, visited |-> <<>>]

isWhole(x) == x.frac = {}

signedUnits(x) == IF x.neg THEN -x.units ELSE x.units

(* The exponents of the powers of two that add up to n * 2^b. *)
RECURSIVE bitsFrom(_, _)
bitsFrom(n, b) ==
  IF n = 0 THEN {}
  ELSE (IF n % 2 = 1 THEN {b} ELSE {}) \cup bitsFrom(n \div 2, b + 1)

RECURSIVE unitsOf(_)
unitsOf(S) == IF S = {} THEN 0 ELSE 2 ^ Max(S) + unitsOf(S \ {Max(S)})

magnitudeBits(x) == x.frac \cup bitsFrom(x.units, 0)

fromBits(neg, S) ==
  [neg |-> neg /\ S # {},
   units |-> unitsOf({b \in S : b >= 0}),
   frac |-> {b \in S : b < 0}]

(* S + 2^b, carrying. *)
RECURSIVE addBit(_, _)
addBit(S, b) == IF b \in S THEN addBit(S \ {b}, b + 1) ELSE S \cup {b}

RECURSIVE addBits(_, _)
addBits(S, T) ==
  IF T = {} THEN S ELSE addBits(addBit(S, Max(T)), T \ {Max(T)})

(* S - 2^b for S >= 2^b, borrowing. *)
subBit(S, b) ==
  IF b \in S THEN S \ {b}
  ELSE LET c == Min({x \in S : x > b}) IN (S \ {c}) \cup (b..(c - 1))

RECURSIVE subBits(_, _)
subBits(S, T) ==
  IF T = {} THEN S ELSE subBits(subBit(S, Max(T)), T \ {Max(T)})

bitsLess(S, T) == S # T /\ Max((S \ T) \cup (T \ S)) \in T

(* Round to nearest, ties to even, at PRECISION significant bits. *)
roundToDouble(S) ==
  IF S = {} THEN {}
  ELSE LET lsb == Max(S) - (PRECISION - 1)
           dropped == {b \in S : b < lsb}
           kept == S \ dropped
           half == (lsb - 1) \in dropped
           sticky == dropped \ {lsb - 1} # {}
       IN  IF half /\ (sticky \/ lsb \in kept) THEN addBit(kept, lsb) ELSE kept

(* x + y *)
plus(x, y) ==
  IF isWhole(x) /\ isWhole(y) THEN whole(signedUnits(x) + signedUnits(y))
  ELSE LET X == magnitudeBits(x)
           Y == magnitudeBits(y)
       IN  IF x.neg = y.neg THEN fromBits(x.neg, roundToDouble(addBits(X, Y)))
           ELSE IF X = Y THEN zero
           ELSE IF bitsLess(Y, X) THEN fromBits(x.neg, roundToDouble(subBits(X, Y)))
           ELSE fromBits(y.neg, roundToDouble(subBits(Y, X)))

(* -x *)
negated(x) == IF x = zero THEN zero ELSE [x EXCEPT !.neg = ~x.neg]

(* x - y *)
minus(x, y) == plus(x, negated(y))

(* x < y *)
lessThan(x, y) ==
  IF isWhole(x) /\ isWhole(y) THEN signedUnits(x) < signedUnits(y)
  ELSE IF x.neg # y.neg THEN x.neg
  ELSE IF x.neg THEN bitsLess(magnitudeBits(y), magnitudeBits(x))
  ELSE bitsLess(magnitudeBits(x), magnitudeBits(y))

(* Math.abs *)
abs(n) == [n EXCEPT !.neg = FALSE]

(* Math.round: to the nearest integer, halves upwards. *)
round(n) ==
  IF n.neg
    THEN whole(-(n.units + (IF -1 \in n.frac /\ n.frac # {-1} THEN 1 ELSE 0)))
    ELSE whole(n.units + (IF -1 \in n.frac THEN 1 ELSE 0))

(* Math.max(0, n) *)
max0(n) == IF lessThan(zero, n) THEN n ELSE zero

RECURSIVE bitLength(_)
bitLength(n) == IF n = 0 THEN 0 ELSE 1 + bitLength(n \div 2)

(* The bits of the quotient of the magnitude S by n from position p down   *)
(* to position last, by long division with remainder r, and one bit below  *)
(* them that stands for whatever of the quotient is left.                  *)
RECURSIVE quotientFrom(_, _, _, _, _)
quotientFrom(S, n, p, last, r) ==
  IF p < last
    THEN (IF r # 0 \/ \E b \in S : b < last THEN {last - 1} ELSE {})
    ELSE LET r2 == 2 * r + (IF p \in S THEN 1 ELSE 0)
         IN  IF r2 >= n THEN {p} \cup quotientFrom(S, n, p - 1, last, r2 - n)
             ELSE quotientFrom(S, n, p - 1, last, r2)

(* x / n for an integer n > 0 *)
dividedBy(x, n) ==
  IF isWhole(x) /\ x.units % n = 0
    THEN [neg |-> x.neg, units |-> x.units \div n, frac |-> {}]
    ELSE LET S == magnitudeBits(x)
         IN  fromBits(x.neg,
               roundToDouble(quotientFrom(S, n, Max(S), Max(S) - bitLength(n) - PRECISION, 0)))

(* parseFloat of an amount written with two decimals: the double nearest   *)
(* to c hundredths.                                                        *)
parseFloat(c) == dividedBy(whole(c), 100)

(* mxn: "$" + Math.round(Math.abs(n)).toLocaleString("es-MX"); the string  *)
(* is the decimal writing of the rounded magnitude.                        *)
mxn(n) == round(abs(n))

(* A date string is <<y, m, d>> when its year is written with four        *)
(* digits, as the parser leaves it, and <<y, m, d, w>> when the year is    *)
(* written with w # 4 digits; month and day are always two digits.         *)
yearWidth(dateStr) == IF Len(dateStr) = 4 THEN dateStr[4] ELSE 4

(* parseInt(dateStr.slice(8), 10): the text from the ninth character on,   *)
(* which is the day when the year has four digits, its last digit when     *)
(* the year has three, and "-dd" when the year has five.                   *)
dom(dateStr) ==
  CASE yearWidth(dateStr) = 4 -> dateStr[3]
    [] yearWidth(dateStr) = 3 -> dateStr[3] % 10
    [] yearWidth(dateStr) = 5 -> 0 - dateStr[3]

(* The year new Date(y, ...) takes for y: 0 to 99 stand for 1900 to 1999. *)
fullYear(y) == IF y <= 99 THEN 1900 + y ELSE y

(* The number of digits `${n}` writes. *)
RECURSIVE digits(_)
digits(n) == IF n < 10 THEN 1 ELSE 1 + digits(n \div 10)

RECURSIVE pow10(_)
pow10(n) == IF n = 0 THEN 1 ELSE 10 * pow10(n - 1)

(* `${getFullYear()}-${month padded}-${day padded}`: the year unpadded. *)
formatDate(y, m, d) ==
  IF digits(y) = 4 THEN <<y, m, d>> ELSE <<y, m, d, digits(y)>>

(* The number of days from 1970-01-01 to the local midnight               *)
(* new Date(y, m - 1, d) stands for.                                       *)
dayNumber(dateStr) ==
  LET y == IF dateStr[2] <= 2 THEN fullYear(dateStr[1]) - 1
                              ELSE fullYear(dateStr[1])
      m == dateStr[2]
      d == dateStr[3]
      era == y \div 400
      yoe == y - era * 400
      doy == (153 * (IF m > 2 THEN m - 3 ELSE m + 9) + 2) \div 5 + d - 1
      doe == yoe * 365 + yoe \div 4 - yoe \div 100 + doy
  IN  era * 146097 + doe - 719468

(* new Date(y, m - 1, d).getDay(): 0 = Sunday ... 6 = Saturday *)
dow(dateStr) == (dayNumber(dateStr) + 4) % 7

daysBetween(a, b) == dayNumber(b) - dayNumber(a)

isLeapYear(y) == (y % 4 = 0 /\ y % 100 # 0) \/ y % 400 = 0

daysInMonth(y, m) ==
  IF m \in {4, 6, 9, 11} THEN 30
  ELSE IF m = 2 THEN (IF isLeapYear(y) THEN 29 ELSE 28)
  ELSE 31

(* new Date(y, m - 1, d + 1), formatted back: a day past the end of the    *)
(* month rolls over to the first of the next one.                          *)
nextDay(dateStr) ==
  LET y == fullYear(dateStr[1])
      m == dateStr[2]
      d == dateStr[3]
  IN  IF d + 1 <= daysInMonth(y, m) THEN formatDate(y, m, d + 1)
      ELSE IF m < 12 THEN formatDate(y, m + 1, 1)
      ELSE formatDate(y + 1, 1, 1)

(* a < b, a <= b on date strings, character by character: the years are   *)
(* compared on the digits both have; when these agree the shorter year is  *)
(* followed by "-", which sorts before every digit.                        *)
dateLess(a, b) ==
  LET wa == yearWidth(a)
      wb == yearWidth(b)
      w == IF wa < wb THEN wa ELSE wb
      pa == a[1] \div pow10(wa - w)
      pb == b[1] \div pow10(wb - w)
  IN  \/ pa < pb
      \/ pa = pb /\ wa < wb
      \/ pa = pb /\ wa = wb /\ a[2] < b[2]
      \/ pa = pb /\ wa = wb /\ a[2] = b[2] /\ a[3] < b[3]

dateLessEq(a, b) == a = b \/ dateLess(a, b)

RECURSIVE sumAbs(_)
sumAbs(list) ==
  IF list = <<>> THEN zero
  ELSE plus(sumAbs(SubSeq(list, 1, Len(list) - 1)), abs(list[Len(list)].amount))

RECURSIVE sumAmounts(_)
sumAmounts(list) ==
  IF list = <<>> THEN zero
  ELSE plus(sumAmounts(SubSeq(list, 1, Len(list) - 1)), list[Len(list)].amount)

null == [id |-> "null", trigger_value |-> zero, roast |-> <<>>]

(* indiceGodin counting the inflows as well. *)
indiceGodin_AnySign(ts) ==
  LET list == SelectSeq(ts, LAMBDA t : t.category = "convenience_store")
      total == sumAbs(list)
      hasOxxo == \E i \in 1..Len(list) :
                   includes(toLowerCase(list[i].description), <<"o","x","x","o">>)
  IN  IF Len(list) < 2 THEN null
      ELSE [id |-> "indice_godin",
            trigger_value |-> whole(Len(list)),
            roast |-> <<Len(list), hasOxxo, mxn(total)>>]

indiceGodin(ts) ==
  LET list == SelectSeq(ts, LAMBDA t : t.category = "convenience_store" /\ lessThan(t.amount, zero))
      total == sumAbs(list)
      hasOxxo == \E i \in 1..Len(list) :
                   includes(toLowerCase(list[i].description), <<"o","x","x","o">>)
  IN  IF Len(list) < 2 THEN null
      ELSE [id |-> "indice_godin",
            trigger_value |-> whole(Len(list)),
            roast |-> <<Len(list), hasOxxo, mxn(total)>>]

accionistaUber(ts) ==
  LET list == SelectSeq(ts, LAMBDA t : t.category = "rideshare" /\ lessThan(t.amount, zero))
      total == sumAbs(list)
  IN  IF lessThan(total, whole(200)) THEN null
      ELSE LET avgTrip == IF Len(list) # 0 THEN round(dividedBy(total, Len(list)))
                                           ELSE zero
           IN  [id |-> "accionista_uber",
                trigger_value |-> total,
                roast |-> <<mxn(total), Len(list), mxn(avgTrip)>>]

(* bigWeekendOf taking an outflow of exactly 1000 as well. *)
bigWeekendOf_Inclusive(ts) ==
  SelectSeq(ts, LAMBDA t :
    ~lessThan(whole(-1000), t.amount) /\ (dow(t.date) = 5 \/ dow(t.date) = 6))

bigWeekendOf(ts) ==
  SelectSeq(ts, LAMBDA t :
    lessThan(t.amount, whole(-1000)) /\ (dow(t.date) = 5 \/ dow(t.date) = 6))

incomingOf(ts, trigger) ==
  SelectSeq(ts, LAMBDA t :
    /\ t.category = "spei_transfer"
    /\ lessThan(zero, t.amount)
    /\ daysBetween(trigger.date, t.date) >= 0
    /\ daysBetween(trigger.date, t.date) <= 2)

(* The loop of bancoCentral over bigWeekend, from index i on. *)
RECURSIVE bancoCentralFrom(_, _, _)
bancoCentralFrom(ts, bigWeekend, i) ==
  IF i > Len(bigWeekend) THEN null
  ELSE LET trigger == bigWeekend[i]
           incoming == incomingOf(ts, trigger)
       IN  IF Len(incoming) < 3 THEN bancoCentralFrom(ts, bigWeekend, i + 1)
           ELSE [id |-> "banco_central",
                 trigger_value |-> abs(trigger.amount),
                 roast |-> <<dow(trigger.date), trigger.date, mxn(trigger.amount),
                             Len(incoming), mxn(sumAmounts(incoming))>>]

bancoCentral(ts) == bancoCentralFrom(ts, bigWeekendOf(ts), 1)

(* hoyoNegroEfectivo from three withdrawals on. *)
hoyoNegroEfectivo_FromThree(ts) ==
  LET list == SelectSeq(ts, LAMBDA t : t.category = "cash_withdrawal" /\ lessThan(t.amount, zero))
      total == sumAbs(list)
  IN  IF Len(list) < 3 THEN null
      ELSE [id |-> "hoyo_negro_efectivo",
            trigger_value |-> whole(Len(list)),
            roast |-> <<Len(list), mxn(total)>>]

hoyoNegroEfectivo(ts) ==
  LET list == SelectSeq(ts, LAMBDA t : t.category = "cash_withdrawal" /\ lessThan(t.amount, zero))
      total == sumAbs(list)
  IN  IF Len(list) < 4 THEN null
      ELSE [id |-> "hoyo_negro_efectivo",
            trigger_value |-> whole(Len(list)),
            roast |-> <<Len(list), mxn(total)>>]

(* socioSmartfit taking only charges of the gym. *)
socioSmartfit_GymOutflow(ts) ==
  LET gym == SelectSeq(ts, LAMBDA t : t.category = "subscription_gym" /\ lessThan(t.amount, zero))
      delivery == SelectSeq(ts, LAMBDA t : t.category = "food_delivery" /\ lessThan(t.amount, zero))
  IN  IF Len(gym) < 1 \/ Len(delivery) < 5 THEN null
      ELSE [id |-> "socio_honorario_smartfit",
            trigger_value |-> whole(Len(delivery)),
            roast |-> <<mxn(sumAbs(gym)), Len(delivery), mxn(sumAbs(delivery))>>]

socioSmartfit(ts) ==
  LET gym == SelectSeq(ts, LAMBDA t : t.category = "subscription_gym")
      delivery == SelectSeq(ts, LAMBDA t : t.category = "food_delivery" /\ lessThan(t.amount, zero))
  IN  IF Len(gym) < 1 \/ Len(delivery) < 5 THEN null
      ELSE [id |-> "socio_honorario_smartfit",
            trigger_value |-> whole(Len(delivery)),
            roast |-> <<mxn(sumAbs(gym)), Len(delivery), mxn(sumAbs(delivery))>>]

(* qualifying.reduce((max, t) => (t.amount < max.amount ? t : max)) *)
RECURSIVE reduceBiggest(_, _)
reduceBiggest(max, rest) ==
  IF rest = <<>> THEN max
  ELSE reduceBiggest(IF lessThan(Head(rest).amount, max.amount) THEN Head(rest) ELSE max,
                     Tail(rest))

(* sindromeMeLoMerezco taking a purchase of exactly 500 as well. *)
sindromeMeLoMerezco_Inclusive(ts) ==
  LET qualifying == SelectSeq(ts, LAMBDA t :
        t.category = "ecommerce" /\ ~lessThan(whole(-500), t.amount) /\ dom(t.date) \in {15, 30, 31})
  IN  IF Len(qualifying) = 0 THEN null
      ELSE LET biggest == reduceBiggest(Head(qualifying), Tail(qualifying))
           IN  [id |-> "sindrome_me_lo_merezco",
                trigger_value |-> abs(biggest.amount),
                roast |-> <<biggest.date, mxn(biggest.amount), biggest.description>>]

sindromeMeLoMerezco(ts) ==
  LET qualifying == SelectSeq(ts, LAMBDA t :
        t.category = "ecommerce" /\ lessThan(t.amount, whole(-500)) /\ dom(t.date) \in {15, 30, 31})
  IN  IF Len(qualifying) = 0 THEN null
      ELSE LET biggest == reduceBiggest(Head(qualifying), Tail(qualifying))
           IN  [id |-> "sindrome_me_lo_merezco",
                trigger_value |-> abs(biggest.amount),
                roast |-> <<biggest.date, mxn(biggest.amount), biggest.description>>]

(* martirComisiones counting the outflows of every category. *)
martirComisiones_AnyOutflow(ts) ==
  LET fees == SelectSeq(ts, LAMBDA t : lessThan(t.amount, zero))
      total == sumAbs(fees)
  IN  IF Len(fees) = 0 THEN null
      ELSE [id |-> "martir_comisiones",
            trigger_value |-> total,
            roast |-> <<mxn(total), Len(fees)>>]

martirComisiones(ts) ==
  LET fees == SelectSeq(ts, LAMBDA t : t.category = "bank_fee" /\ lessThan(t.amount, zero))
      total == sumAbs(fees)
  IN  IF Len(fees) = 0 THEN null
      ELSE [id |-> "martir_comisiones",
            trigger_value |-> total,
            roast |-> <<mxn(total), Len(fees)>>]

(* [...txns].sort((a, b) => a.date.localeCompare(b.date)): a stable sort;  *)
(* x goes behind every element that is not later than it.                  *)
RECURSIVE insertByDate(_, _)
insertByDate(sorted, x) ==
  IF sorted = <<>> THEN <<x>>
  ELSE IF dateLess(x.date, Head(sorted).date) THEN <<x>> \o sorted
  ELSE <<Head(sorted)>> \o insertByDate(Tail(sorted), x)

RECURSIVE sortByDate(_)
sortByDate(ts) ==
  IF ts = <<>> THEN <<>>
  ELSE insertByDate(sortByDate(SubSeq(ts, 1, Len(ts) - 1)), ts[Len(ts)])

(* netByDate keeping the last amount of a date instead of the sum. *)
netByDate_Overwrite(sorted, date) ==
  LET list == SelectSeq(sorted, LAMBDA t : t.date = date)
  IN  IF list = <<>> THEN zero ELSE list[Len(list)].amount

(* netByDate.get(date) ?? 0 after the loop over sorted *)
netByDate(sorted, date) ==
  sumAmounts(SelectSeq(sorted, LAMBDA t : t.date = date))

(* The while loop of sobrevivienteExtremo from the day current on; lowest  *)
(* is <<>> for null, else <<lowestBalance, lowestDate>>.                   *)
RECURSIVE walkDays(_, _, _, _, _)
walkDays(sorted, lastDate, current, running, lowest) ==
  IF ~dateLessEq(current, lastDate) THEN lowest
  ELSE LET r == plus(running, netByDate(sorted, current))
           day == dom(current)
           low == IF day \in {13, 14, 28, 29} /\ lessThan(r, whole(50))
                       /\ (lowest = <<>> \/ lessThan(r, lowest[1]))
                    THEN <<r, current>>
                    ELSE lowest
       IN  walkDays(sorted, lastDate, nextDay(current), r, low)

sobrevivienteExtremo(ts) ==
  IF Len(ts) = 0 THEN null
  ELSE LET sorted == sortByDate(ts)
           firstDate == sorted[1].date
           lastDate == sorted[Len(sorted)].date
           lowest == walkDays(sorted, lastDate, firstDate, zero, <<>>)
       IN  IF lowest = <<>> THEN null
           ELSE LET lowestBalance == lowest[1]
                    lowestDate == lowest[2]
                IN  [id |-> "sobreviviente_extremo",
                     trigger_value |-> max0(minus(whole(50), lowestBalance)),
                     roast |-> <<lowestDate, dom(lowestDate) <= 14,
                                 lessThan(lowestBalance, zero), mxn(lowestBalance)>>]

(* EVALUATORS[k - 1](txns) *)
evaluate(k, ts) ==
  CASE k = 1 -> indiceGodin(ts)
    [] k = 2 -> accionistaUber(ts)
    [] k = 3 -> bancoCentral(ts)
    [] k = 4 -> hoyoNegroEfectivo(ts)
    [] k = 5 -> socioSmartfit(ts)
    [] k = 6 -> sindromeMeLoMerezco(ts)
    [] k = 7 -> martirComisiones(ts)
    [] k = 8 -> sobrevivienteExtremo(ts)

(* EVALUATORS.map(fn => fn(txns)) *)
EVALUATORS(ts) == [k \in 1..8 |-> evaluate(k, ts)]

(* insertByTrigger putting x ahead of the elements of equal trigger_value. *)
RECURSIVE insertByTrigger_Unstable(_, _)
insertByTrigger_Unstable(sorted, x) ==
  IF sorted = <<>> THEN <<x>>
  ELSE IF ~lessThan(zero, minus(Head(sorted).trigger_value, x.trigger_value))
    THEN <<x>> \o sorted
  ELSE <<Head(sorted)>> \o insertByTrigger_Unstable(Tail(sorted), x)

(* .sort((a, b) => b.trigger_value - a.trigger_value): a stable sort; x    *)
(* goes behind every element whose trigger_value is not lower than its.    *)
RECURSIVE insertByTrigger(_, _)
insertByTrigger(sorted, x) ==
  IF sorted = <<>> THEN <<x>>
  ELSE IF lessThan(minus(Head(sorted).trigger_value, x.trigger_value), zero)
    THEN <<x>> \o sorted
  ELSE <<Head(sorted)>> \o insertByTrigger(Tail(sorted), x)

RECURSIVE sortByTrigger(_)
sortByTrigger(as) ==
  IF as = <<>> THEN <<>>
  ELSE insertByTrigger(sortByTrigger(SubSeq(as, 1, Len(as) - 1)), as[Len(as)])

calculateAwards(ts) ==
  sortByTrigger(SelectSeq(EVALUATORS(ts), LAMBDA a : a # null))

(***************************************************************************)
(* Inputs: descriptions built from statement-like tokens.                  *)
(***************************************************************************)
TOKENS ==
  { <<"U","B","E","R">>,
    <<" ","E","A","T","S">>,
    <<"f","o","o","d">>,
    <<"r","a","p","p","i">>,
    <<"O","X","X","O">>,
    <<" ","G","A","S">>,
    <<" ","S","T","A","T","I","O","N">>,
    <<" ","T","I","E","N","D","A"," ","1","2","3">>,
    <<"r","e","s","t"," ">>,
    <<"\n">>,
    <<"*">>,
    <<" ">> }

Descriptions == {Flatten(ts) : ts \in SeqsUpTo(TOKENS, MaxTokens)}

(***************************************************************************)
(* Inputs of the keyword matcher: every string over a small alphabet (with *)
(* a line terminator and a character that is special in a RegExp), a few   *)
(* statement-like descriptions, and keywords of each of the three forms.   *)
(***************************************************************************)
ALPHABET == {"a", "b", ".", "\n"}

KwDescriptions ==
  SeqsUpTo(ALPHABET, MaxDescLen) \cup
  { <<"I","n","t","e","r","e","s","t"," ","f","e","e">>,
    <<"R","E","S","T"," ","b","a","r">>,
    <<"U","B","E","R","*","E","A","T","S","1","2">>,
    <<"U","B","E","R","\n","E","A","T","S">> }

TestKeywords ==
  { <<"a">>, <<"a","b">>, <<"b",".">>,
    <<"^","a">>, <<"^","a","b">>, <<"^","r","e","s","t"," ">>,
    <<"a","*","b">>, <<"*","b">>, <<"a","*">>, <<"a","*","*","b">>,
    <<"b","*","a","*","b">>, <<".","*","b">>, <<"^","a","*","b">>,
    <<"u","b","e","r","*","e","a","t","s">> }

(***************************************************************************)
(* Inputs of the award engine: statements made of transactions of one of   *)
(* five families, four with amounts in whole pesos and one with centavos.  *)
(* June 2025 starts on a Sunday: the 6th and the 13th are Fridays.         *)
(* February 2024 has 29 days.                                              *)
(***************************************************************************)
Txn(date, pesos, desc) == [date |-> date, amount |-> whole(pesos), description |-> desc]

(* The same with an amount given in hundredths, as read from a statement. *)
TxnCents(date, cents, desc) ==
  [date |-> date, amount |-> parseFloat(cents), description |-> desc]

OXXO == <<"O","X","X","O">>
UBER == <<"U","B","E","R">>
COMISION == <<"C","O","M","I","S","I","O","N">>
AMAZON == <<"A","M","A","Z","O","N">>
SHEIN == <<"S","H","E","I","N">>
NOMINA == <<"N","O","M","I","N","A">>
RENTA == <<"R","E","N","T","A">>
SPEI == <<"S","P","E","I">>
SMARTFIT == <<"S","M","A","R","T","F","I","T">>
RAPPI == <<"R","A","P","P","I">>
RETIRO == <<"R","E","T","I","R","O">>
OXXO_TIENDA == <<"O","X","X","O"," ","T","I","E","N","D","A"," ","1","2","3">>
OXXO_GAS == <<"O","X","X","O"," ","G","A","S"," ","S","T","A","T","I","O","N">>

(* One transaction or so of each kind of award. *)
MixedPool ==
  { Txn(<<2025, 6, 12>>, -20, OXXO),
    Txn(<<2025, 6, 14>>, -200, UBER),
    Txn(<<2025, 6, 13>>, -2, COMISION),
    Txn(<<2025, 6, 15>>, -600, AMAZON),
    Txn(<<2025, 6, 30>>, -600, SHEIN),
    Txn(<<2025, 6, 13>>, 80, NOMINA) }

(* Large outflows around a weekend and transfers coming in. *)
BancoCore ==
  { Txn(<<2025, 6, 6>>, -1500, RENTA),
    Txn(<<2025, 6, 7>>, -2000, RENTA),
    Txn(<<2025, 6, 6>>, 100, SPEI),
    Txn(<<2025, 6, 8>>, 100, SPEI),
    Txn(<<2025, 6, 9>>, 100, SPEI) }

(* The same with an outflow of exactly 1000 and one on a Sunday. *)
BancoPool ==
  BancoCore \cup
  { Txn(<<2025, 6, 6>>, -1000, RENTA),
    Txn(<<2025, 6, 8>>, -3000, RENTA) }

(* The awards that count transactions. *)
ComboPool ==
  { Txn(<<2025, 6, 2>>, 300, SMARTFIT),
    Txn(<<2025, 6, 2>>, -100, RAPPI),
    Txn(<<2025, 6, 2>>, 100, RAPPI),
    Txn(<<2025, 6, 2>>, -500, RETIRO) }

(* Salary and spending around the 13th, the 14th and the end of February. *)
BalanceDates == {<<2024, 2, 12>>, <<2024, 2, 13>>, <<2024, 2, 28>>, <<2024, 3, 1>>}
BalanceAmounts == {-30, 80}
BalancePool == {Txn(d, a, NOMINA) : d \in BalanceDates, a \in BalanceAmounts}

(* Deposits with centavos on one day, 50.00 in all. *)
CentavosPool ==
  { TxnCents(<<2024, 2, 13>>, 4969, NOMINA),
    TxnCents(<<2024, 2, 13>>, 30, NOMINA),
    TxnCents(<<2024, 2, 13>>, 1, NOMINA) }

AwardInputs ==
  SeqsUpTo(MixedPool, MaxTxns) \cup SeqsUpTo(BancoCore, MaxBancoTxns) \cup
  SeqsUpTo(ComboPool, MaxComboTxns) \cup SeqsUpTo(BalancePool, MaxBalanceTxns) \cup
  SeqsUpTo(CentavosPool, MaxCentavosTxns)

BancoInputs == SeqsUpTo(BancoPool, MaxBancoTxns)

POOL_DESCRIPTIONS ==
  <<OXXO, UBER, COMISION, AMAZON, SHEIN, NOMINA, RENTA, SPEI, SMARTFIT, RAPPI, RETIRO,
    OXXO_TIENDA, OXXO_GAS>>

(* categorize on the descriptions of these statements, computed once. *)
categoryOf == [d \in Range(POOL_DESCRIPTIONS) |-> categorize(d)]

(* categorizeTransactions: txns.map(t => ({...t, category: categorize(t.description)})) *)
categorizeTransactions(ts) ==
  [i \in 1..Len(ts) |->
     [date |-> ts[i].date, amount |-> ts[i].amount,
      description |-> ts[i].description,
      category |-> IF ts[i].description \in DOMAIN categoryOf
                     THEN categoryOf[ts[i].description]
                     ELSE categorize(ts[i].description)]]

(***************************************************************************)
(* The categorizer run: a description is handed to categorize.             *)
(***************************************************************************)
InitCategorize ==
  /\ pc = "start"
  /\ description \in Descriptions
  /\ category = "none"
  /\ kw = <<>>
  /\ matched = "none"
  /\ txns = <<>>
  /\ categorized = <<>>
  /\ awards = <<>>
  /\ StreaksIdle
  /\ PageIdle
  /\ WalkIdle

Categorize ==
  /\ pc = "start"
  /\ category' = categorize(description)
  /\ pc' = "categorized"
  /\ UNCHANGED <<description, kw, matched, txns, categorized, awards,
               streakVars, pageVars, walk>>

NextCategorize == Categorize

SpecCategorize == InitCategorize /\ [][NextCategorize]_vars

(***************************************************************************)
(* The keyword matcher run: categorize lower-cases the description and     *)
(* tests one keyword against it.                                           *)
(***************************************************************************)
InitKwMatches ==
  /\ pc = "start"
  /\ description \in KwDescriptions
  /\ kw \in TestKeywords
  /\ category = "none"
  /\ matched = "none"
  /\ txns = <<>>
  /\ categorized = <<>>
  /\ awards = <<>>
  /\ StreaksIdle
  /\ PageIdle
  /\ WalkIdle

KwMatches ==
  /\ pc = "start"
  /\ matched' = kwMatches(toLowerCase(description), kw)
  /\ pc' = "matched"
  /\ UNCHANGED <<description, kw, category, txns, categorized, awards,
               streakVars, pageVars, walk>>

NextKwMatches == KwMatches

SpecKwMatches == InitKwMatches /\ [][NextKwMatches]_vars

(***************************************************************************)
(* The award engine run, as handleFile calls it: the parsed transactions   *)
(* are categorized, then the awards are calculated.                        *)
(***************************************************************************)
InitAwards ==
  /\ pc = "start"
  /\ txns \in AwardInputs
  /\ categorized = <<>>
  /\ awards = <<>>
  /\ description = <<>>
  /\ category = "none"
  /\ kw = <<>>
  /\ matched = "none"
  /\ StreaksIdle
  /\ PageIdle
  /\ WalkIdle

(* sobrevivienteExtremo sorting the array it is given: txns.sort(...). *)
leftBySobrevivienteExtremo_InPlace(ts) == sortByDate(ts)

(* The array given to sobrevivienteExtremo, as the call leaves it:         *)
(* [...txns] is a new array, and it is this one sort() reorders.           *)
leftBySobrevivienteExtremo(ts) == ts

(* The array given to calculateAwards, as the call leaves it: every        *)
(* evaluator is handed the same array; the other seven only filter, map    *)
(* and reduce it, which build new arrays.                                  *)
leftByCalculateAwards(ts) == leftBySobrevivienteExtremo(ts)

(* The array given to categorizeTransactions, as the call leaves it: map   *)
(* builds a new array and { ...t, category } new objects.                  *)
leftByCategorizeTransactions(ts) == ts

CategorizeTransactions ==
  /\ pc = "start"
  /\ categorized' = categorizeTransactions(txns)
  /\ txns' = leftByCategorizeTransactions(txns)
  /\ pc' = "categorized"
  /\ UNCHANGED <<awards, description, category, kw, matched,
               streakVars, pageVars, walk>>

CalculateAwards ==
  /\ pc = "categorized"
  /\ awards' = calculateAwards(categorized)
  /\ categorized' = leftByCalculateAwards(categorized)
  /\ pc' = "awarded"
  /\ UNCHANGED <<txns, description, category, kw, matched,
               streakVars, pageVars, walk>>

NextAwards == CategorizeTransactions \/ CalculateAwards

SpecAwards == InitAwards /\ [][NextAwards]_vars

(* The same run on the statements of the weekend family alone. *)
InitBanco ==
  /\ pc = "start"
  /\ txns \in BancoInputs
  /\ categorized = <<>>
  /\ awards = <<>>
  /\ description = <<>>
  /\ category = "none"
  /\ kw = <<>>
  /\ matched = "none"
  /\ StreaksIdle
  /\ PageIdle
  /\ WalkIdle

SpecBanco == InitBanco /\ [][NextAwards]_vars

(***************************************************************************)
(* The claims                                                              *)
(***************************************************************************)
(* The 13 named categories in the order the claims give them. *)
ClaimedPriority ==
  <<"food_delivery", "rideshare", "bank_fee", "cash_withdrawal",
    "spei_transfer", "subscription_gym", "gas_transport", "convenience_store",
    "restaurant_cafe", "supermarket", "pharmacy_health", "ecommerce",
    "education">>

ClaimedLabels ==
  {"convenience_store", "rideshare", "food_delivery", "restaurant_cafe",
   "supermarket", "cash_withdrawal", "subscription_gym", "ecommerce",
   "pharmacy_health", "spei_transfer", "bank_fee", "gas_transport",
   "education", "other"}

Lowered == toLowerCase(description)

ContainsFoodToken ==
  \/ includes(Lowered, <<"e","a","t","s">>)
  \/ includes(Lowered, <<"f","o","o","d">>)
  \/ includes(Lowered, <<"r","a","p","p","i">>)

(* The first category of the claimed order among those in Eligible, or     *)
(* "other".                                                                *)
FirstOf(Eligible) ==
  LET M == {i \in 1..Len(ClaimedPriority) : ClaimedPriority[i] \in Eligible}
  IN  IF M = {} THEN "other" ELSE ClaimedPriority[Min(M)]

Matching == {c \in Range(ClaimedPriority) : someKeywordMatches(Lowered, c)}

(* C1: for every description, empty and whitespace-only included,          *)
(* categorize returns one of the 14 fixed labels, and it returns "other"   *)
(* when no keyword of any of the 13 named categories matches.              *)
C1_CategorizeTotal ==
  pc = "categorized" =>
    /\ category \in ClaimedLabels
    /\ Matching = {} => category = "other"
    /\ (\A i \in 1..Len(description) : description[i] = " ") => category = "other"

C1_Witness ==
  /\ pc = "categorized"
  /\ description = <<" ", " ">>
  /\ category = "other"

(* C2 as stated: categorize returns the first category of the priority     *)
(* order that has a matching keyword.                                      *)
C2_FirstMatchingCategory ==
  pc = "categorized" => category = FirstOf(Matching)

(* C2 amended: categorize returns the first category of the priority order *)
(* that has a matching keyword, rideshare being passed over when the       *)
(* description contains "eats", "food" or "rappi"; "OXXO GAS STATION" is   *)
(* gas_transport, "OXXO TIENDA 123" is convenience_store, and a            *)
(* description with a food_delivery keyword and "uber" is food_delivery.   *)
C2_FirstEligibleCategory ==
  pc = "categorized" =>
    /\ category =
         FirstOf(IF ContainsFoodToken THEN Matching \ {"rideshare"} ELSE Matching)
    /\ description = <<"O","X","X","O"," ","G","A","S"," ","S","T","A","T","I","O","N">>
         => category = "gas_transport"
    /\ description = <<"O","X","X","O"," ","T","I","E","N","D","A"," ","1","2","3">>
         => category = "convenience_store"
    /\ ({"food_delivery", "rideshare"} \subseteq Matching) => category = "food_delivery"

C2_Witness ==
  /\ pc = "categorized"
  /\ description = <<"O","X","X","O"," ","G","A","S"," ","S","T","A","T","I","O","N">>
  /\ {"gas_transport", "convenience_store"} \subseteq Matching
  /\ category = "gas_transport"

(* C3: a description that, lower-cased, contains "eats", "food" or "rappi" *)
(* is never categorized rideshare, also when a rideshare keyword matches;  *)
(* it gets the first of the remaining categories with a matching keyword,  *)
(* or "other".                                                             *)
C3_RideshareExclusion ==
  (pc = "categorized" /\ ContainsFoodToken) =>
    /\ category # "rideshare"
    /\ category = FirstOf(Matching \ {"rideshare"})

C3_Witness ==
  /\ pc = "categorized"
  /\ description = <<"U","B","E","R","f","o","o","d">>
  /\ "rideshare" \in Matching
  /\ category = "other"

(* The keyword matching the claim describes. *)
RECURSIVE SplitOnStar(_)
SplitOnStar(s) ==
  IF "*" \notin Range(s) THEN <<s>>
  ELSE LET i == Min({j \in 1..Len(s) : s[j] = "*"})
       IN  <<SubSeq(s, 1, i - 1)>> \o SplitOnStar(SubSeq(s, i + 1, Len(s)))

(* The literal parts occur in s in order, the first one at the start of s  *)
(* when atStart, with any run of characters between them.                  *)
RECURSIVE OccurInOrder(_, _, _)
OccurInOrder(parts, s, atStart) ==
  IF parts = <<>> THEN TRUE
  ELSE LET p == Head(parts) IN
    \E i \in (IF atStart THEN {1} ELSE 1..(Len(s) - Len(p) + 1)) :
      /\ i + Len(p) - 1 <= Len(s)
      /\ SubSeq(s, i, i + Len(p) - 1) = p
      /\ OccurInOrder(Tail(parts), SubSeq(s, i + Len(p), Len(s)), FALSE)

ClaimedMatch(d, k) ==
  LET anchored == Len(k) > 0 /\ k[1] = "^"
      rest == IF anchored THEN Tail(k) ELSE k
  IN  OccurInOrder(SplitOnStar(rest), d, anchored)

(* C4: a keyword with the prefix ^ matches only at the start of the        *)
(* lower-cased description, a keyword containing * matches when its        *)
(* literal parts occur in order with any run of characters in place of     *)
(* each *, and any other keyword matches exactly when it is a substring.   *)
C4_KeywordMatching ==
  pc = "matched" => matched = ClaimedMatch(Lowered, kw)

(***************************************************************************)
(* The claims on the award engine                                          *)
(***************************************************************************)
AwardIds ==
  <<"indice_godin", "accionista_uber", "banco_central", "hoyo_negro_efectivo",
    "socio_honorario_smartfit", "sindrome_me_lo_merezco", "martir_comisiones",
    "sobreviviente_extremo">>

Present(id, as) == \E k \in 1..Len(as) : as[k].id = id

(* The award with this id in the output of calculateAwards, or null. *)
AwardWon(id) ==
  IF Present(id, awards)
    THEN awards[CHOOSE k \in 1..Len(awards) : awards[k].id = id]
    ELSE null

(* The calendar, written out: the lengths of the months of 2024 and 2025,  *)
(* the 1st of June 2025, a Sunday, and the days of the months the          *)
(* statements are of.                                                      *)
MonthLengths(y) ==
  IF y = 2024 THEN <<31, 29, 31, 30, 31, 30, 31, 31, 30, 31, 30, 31>>
              ELSE <<31, 28, 31, 30, 31, 30, 31, 31, 30, 31, 30, 31>>

RECURSIVE SumFirst(_, _)
SumFirst(s, n) == IF n = 0 THEN 0 ELSE s[n] + SumFirst(s, n - 1)

(* Days from 2023-12-31 to the date. *)
Ordinal(date) ==
  (IF date[1] = 2025 THEN 366 ELSE 0) + SumFirst(MonthLengths(date[1]), date[2] - 1)
  + date[3]

StatementMonths == {<<2024, 2>>, <<2024, 3>>, <<2025, 6>>}

Calendar ==
  {<<ym[1], ym[2], d>> : ym \in StatementMonths, d \in 1..31} \cap
  {<<y, m, d>> \in {2024, 2025} \X (1..12) \X (1..31) : d <= MonthLengths(y)[m]}

OrdinalOf == [c \in Calendar |-> Ordinal(c)]

Weekday(date) == (OrdinalOf[date] - OrdinalOf[<<2025, 6, 1>>]) % 7

(* The balance at the end of a day: starting at 0, the summed net amount   *)
(* of each day up to it, added day after day.                              *)
NetOn(ts, o) == sumAmounts(SelectSeq(ts, LAMBDA t : OrdinalOf[t.date] = o))

RECURSIVE BalanceOver(_, _)
BalanceOver(ts, days) ==
  IF days = {} THEN zero
  ELSE plus(BalanceOver(ts, days \ {Max(days)}), NetOn(ts, Max(days)))

BalanceOn(ts, day) ==
  BalanceOver(ts, {o \in {OrdinalOf[ts[i].date] : i \in 1..Len(ts)} : o <= OrdinalOf[day]})

(* The days of the calendar with day of month 13, 14, 28 or 29. *)
CandidateDays == {c \in Calendar : c[3] \in {13, 14, 28, 29}}

(* Those from the earliest to the latest transaction date on which the     *)
(* balance is below 50.                                                    *)
Candidates(ts) ==
  IF ts = <<>> THEN {}
  ELSE LET dated == {OrdinalOf[ts[i].date] : i \in 1..Len(ts)}
           earliest == Min(dated)
           latest == Max(dated)
       IN  {c \in CandidateDays :
              /\ earliest <= OrdinalOf[c]
              /\ OrdinalOf[c] <= latest
              /\ lessThan(BalanceOn(ts, c), whole(50))}

LowestCandidates(ts) ==
  LET cs == Candidates(ts)
  IN  {c \in cs : \A e \in cs : ~lessThan(BalanceOn(ts, e), BalanceOn(ts, c))}

EarliestOf(days) == CHOOSE c \in days : \A e \in days : OrdinalOf[c] <= OrdinalOf[e]

InflowsAfter(ts, i) ==
  {j \in 1..Len(ts) :
     /\ ts[j].category = "spei_transfer" /\ lessThan(zero, ts[j].amount)
     /\ OrdinalOf[ts[j].date] - OrdinalOf[ts[i].date] \in {0, 1, 2}}

QualifyingOutflows(ts) ==
  {i \in 1..Len(ts) :
     /\ lessThan(ts[i].amount, whole(-1000))
     /\ Weekday(ts[i].date) \in {5, 6}
     /\ Cardinality(InflowsAfter(ts, i)) >= 3}

(* C6: banco_central is awarded for the first outflow of the list with     *)
(* amount < -1000 on a Friday or Saturday that has at least 3              *)
(* spei_transfer inflows dated the same day to 2 days later, with          *)
(* trigger_value its magnitude; there is no award without such an outflow. *)
C6_BancoCentral ==
  pc = "awarded" =>
    LET won == AwardWon("banco_central")
        Q == QualifyingOutflows(categorized)
    IN  IF Q = {} THEN won = null
        ELSE LET trigger == categorized[Min(Q)]
             IN  /\ won.id = "banco_central"
                 /\ won.trigger_value = abs(trigger.amount)
                 /\ won.roast[2] = trigger.date
                 /\ won.roast[4] = Cardinality(InflowsAfter(categorized, Min(Q)))

(* The first big weekend outflow of the list has too few inflows in its    *)
(* window, a later one has three.                                          *)
C6_Witness ==
  /\ pc = "awarded"
  /\ Len(categorized) = 5
  /\ categorized[1].amount = whole(-1500) /\ categorized[2].amount = whole(-2000)
  /\ QualifyingOutflows(categorized) = {2}
  /\ AwardWon("banco_central").trigger_value = whole(2000)

Removed(ts, i) == SubSeq(ts, 1, i - 1) \o SubSeq(ts, i + 1, Len(ts))

Changed(before, after) ==
  {k \in 1..Len(AwardIds) : Present(AwardIds[k], before) # Present(AwardIds[k], after)}

ConvenienceOutflows(ts) ==
  {i \in 1..Len(ts) : ts[i].category = "convenience_store" /\ lessThan(ts[i].amount, zero)}

(* C7 as stated: when removing a transaction takes an award out of the     *)
(* output of calculateAwards, the presence of every other award is         *)
(* unchanged.                                                              *)
C7_OnlyThatAwardChanges ==
  pc = "awarded" =>
    \A i \in 1..Len(categorized) :
      LET after == calculateAwards(Removed(categorized, i))
      IN  \A k \in Changed(awards, after) :
            (Present(AwardIds[k], awards) /\ ~Present(AwardIds[k], after))
              => Changed(awards, after) = {k}

(* The award whose detector selects by this category (0: none). *)
BoundAward(cat) ==
  CASE cat = "convenience_store" -> 1
    [] cat = "rideshare" -> 2
    [] cat = "cash_withdrawal" -> 4
    [] cat \in {"subscription_gym", "food_delivery"} -> 5
    [] cat = "ecommerce" -> 6
    [] cat = "bank_fee" -> 7
    [] OTHER -> 0

(* C7 amended: removing one transaction changes the presence of at most    *)
(* one of the six awards bound to a category, the one of the category of   *)
(* the removed transaction (banco_central, 3, and sobreviviente_extremo,   *)
(* 8, read every category and may change with it); removing one of         *)
(* exactly two convenience_store outflows removes indice_godin.            *)
C7_CategoryBoundAwardsIndependent ==
  pc = "awarded" =>
    \A i \in 1..Len(categorized) :
      LET after == calculateAwards(Removed(categorized, i))
      IN  /\ Changed(awards, after) \subseteq {BoundAward(categorized[i].category), 3, 8}
          /\ (Cardinality(ConvenienceOutflows(categorized)) = 2
               /\ i \in ConvenienceOutflows(categorized))
             => (Present("indice_godin", awards) /\ ~Present("indice_godin", after))

(* One of exactly two convenience_store outflows is removed while another  *)
(* award bound to a category stays.                                        *)
C7_Witness ==
  /\ pc = "awarded"
  /\ Cardinality(ConvenienceOutflows(categorized)) = 2
  /\ Present("indice_godin", awards)
  /\ Present("accionista_uber", awards)
  /\ \E i \in ConvenienceOutflows(categorized) :
       Changed(awards, calculateAwards(Removed(categorized, i))) = {1}

(* The permutations of 1..n, for the short lists. *)
PermsOf ==
  [n \in 0..PermLen |->
     {p \in [1..n -> 1..n] : \A i, j \in 1..n : p[i] = p[j] => i = j}]

Permuted(ts, p) == [i \in 1..Len(ts) |-> ts[p[i]]]

DescriptionRank(desc) == CHOOSE k \in 1..Len(POOL_DESCRIPTIONS) : POOL_DESCRIPTIONS[k] = desc

(* The transactions of the list in one fixed order: by date, amount and    *)
(* description.  Two lists have the same arrangement iff one is a          *)
(* permutation of the other.                                               *)
Precedes(a, b) ==
  LET ka == <<OrdinalOf[a.date], a.amount, DescriptionRank(a.description)>>
      kb == <<OrdinalOf[b.date], b.amount, DescriptionRank(b.description)>>
  IN  \/ ka[1] < kb[1]
      \/ ka[1] = kb[1] /\ lessThan(ka[2], kb[2])
      \/ ka[1] = kb[1] /\ ka[2] = kb[2] /\ ka[3] < kb[3]

RECURSIVE InsertArranged(_, _)
InsertArranged(sorted, x) ==
  IF sorted = <<>> THEN <<x>>
  ELSE IF Precedes(x, Head(sorted)) THEN <<x>> \o sorted
  ELSE <<Head(sorted)>> \o InsertArranged(Tail(sorted), x)

RECURSIVE Arranged(_)
Arranged(ts) ==
  IF ts = <<>> THEN <<>> ELSE InsertArranged(Arranged(Tail(ts)), Head(ts))

(* Every list over the pools is an input, so a detector returns the same   *)
(* on every permutation of every list iff on every list it returns what it *)
(* returns on the list's fixed arrangement; on the short lists every       *)
(* permutation is tried as well.                                           *)
OrderInsensitive(k) ==
  LET here == evaluate(k, categorized)
  IN  /\ evaluate(k, Arranged(categorized)) = here
      /\ Len(categorized) <= PermLen =>
           \A p \in PermsOf[Len(categorized)] :
             evaluate(k, Permuted(categorized, p)) = here

(* C8: each of the eight detectors returns the same result (triggered or   *)
(* not, trigger_value, referenced transaction) on every permutation of the *)
(* list.                                                                   *)
C8_DetectorsOrderInsensitive ==
  pc = "awarded" => \A k \in 1..8 : OrderInsensitive(k)

(* C9: sobrevivienteExtremo yields the same outcome (no award, or the same *)
(* lowest balance, date and trigger_value) on every permutation of the     *)
(* list.                                                                   *)
C9_BalanceOrderIndependent ==
  pc = "awarded" => OrderInsensitive(8)

IndexOf(id) == CHOOSE k \in 1..Len(AwardIds) : AwardIds[k] = id

(* C10: calculateAwards returns the triggered awards, each once, in        *)
(* non-increasing order of trigger_value, awards of equal trigger_value in *)
(* the order of their detectors in the evaluator list.                     *)
C10_RankedStable ==
  pc = "awarded" =>
    /\ \A k \in 1..8 :
         LET a == evaluate(k, categorized)
         IN  IF a = null THEN ~Present(AwardIds[k], awards)
             ELSE Cardinality({j \in 1..Len(awards) : awards[j] = a}) = 1
                  /\ a.id = AwardIds[k]
    /\ \A j \in 1..Len(awards) : awards[j].id \in Range(AwardIds)
    /\ \A i, j \in 1..Len(awards) :
         i < j =>
           \/ lessThan(awards[j].trigger_value, awards[i].trigger_value)
           \/ /\ awards[i].trigger_value = awards[j].trigger_value
              /\ IndexOf(awards[i].id) < IndexOf(awards[j].id)

(* Two awards tie, and an award of a later detector ranks above them. *)
C10_Witness ==
  /\ pc = "awarded"
  /\ Len(awards) >= 3
  /\ \E i \in 1..(Len(awards) - 1) :
       awards[i].trigger_value = awards[i + 1].trigger_value
  /\ \E i, j \in 1..Len(awards) :
       i < j /\ IndexOf(awards[i].id) > IndexOf(awards[j].id)

(***************************************************************************)
(* app/page.tsx: months and streaks                                        *)
(*                                                                         *)
(* A month "YYYY-MM" is the pair <<year, month>>: the two numbers that     *)
(* split("-").map(Number) reads from it.  The text order of the months,    *)
(* which the history query sorts by, is the order of these pairs.          *)
(***************************************************************************)
MaxYears == 2

MaxHistory == 4

(* t.date.slice(0, 7) *)
slice7(date) == <<date[1], date[2]>>

(* isNextMonth without the comparison of the years. *)
isNextMonth_NoYear(a, b) ==
  LET am == a[2]
      bm == b[2]
  IN  \/ (am < 12 /\ bm = am + 1)
      \/ (am = 12 /\ bm = 1)

isNextMonth(a, b) ==
  LET ay == a[1]
      am == a[2]
      by == b[1]
      bm == b[2]
  IN  \/ (am < 12 /\ bm = am + 1 /\ by = ay)
      \/ (am = 12 /\ bm = 1 /\ by = ay + 1)

(* [...new Set(xs)]: the elements in the order of their first occurrence. *)
RECURSIVE newSet(_, _)
newSet(xs, acc) ==
  IF xs = <<>> THEN acc
  ELSE newSet(Tail(xs),
              IF Head(xs) \in Range(acc) THEN acc ELSE Append(acc, Head(xs)))

allIds(h) == newSet(Flatten([i \in 1..Len(h) |-> h[i].awards_won]), <<>>)

(* The loop that never looks at the months. *)
RECURSIVE streakCount_IgnoreGaps(_, _, _, _)
streakCount_IgnoreGaps(h, id, i, count) ==
  IF i < 1 THEN count
  ELSE IF ~(id \in Range(h[i].awards_won)) THEN count
  ELSE streakCount_IgnoreGaps(h, id, i - 1, count + 1)

(* The loop over i of findCurrentStreaks, from the newest row down. *)
RECURSIVE streakCount(_, _, _, _)
streakCount(h, id, i, count) ==
  IF i < 1 THEN count
  ELSE IF ~(id \in Range(h[i].awards_won)) THEN count
  ELSE IF i < Len(h) /\ ~isNextMonth(h[i].month, h[i + 1].month) THEN count
  ELSE streakCount(h, id, i - 1, count + 1)

(* streaks.sort((a, b) => b.count - a.count): stable, descending. *)
RECURSIVE insertByCount(_, _)
insertByCount(sorted, s) ==
  IF sorted = <<>> THEN <<s>>
  ELSE IF Head(sorted).count < s.count THEN <<s>> \o sorted
  ELSE <<Head(sorted)>> \o insertByCount(Tail(sorted), s)

RECURSIVE sortByCount(_, _)
sortByCount(xs, acc) ==
  IF xs = <<>> THEN acc
  ELSE sortByCount(Tail(xs), insertByCount(acc, Head(xs)))

(* The pushes with a threshold of one month. *)
RECURSIVE pushStreaks_FromOne(_, _, _)
pushStreaks_FromOne(h, ids, acc) ==
  IF ids = <<>> THEN acc
  ELSE LET count == streakCount(h, Head(ids), Len(h), 0)
       IN  pushStreaks_FromOne(h, Tail(ids),
                       IF count >= 1
                         THEN Append(acc, [awardId |-> Head(ids), count |-> count])
                         ELSE acc)

RECURSIVE pushStreaks(_, _, _)
pushStreaks(h, ids, acc) ==
  IF ids = <<>> THEN acc
  ELSE LET count == streakCount(h, Head(ids), Len(h), 0)
       IN  pushStreaks(h, Tail(ids),
                       IF count >= 2
                         THEN Append(acc, [awardId |-> Head(ids), count |-> count])
                         ELSE acc)

findCurrentStreaks(h) ==
  IF Len(h) < 2 THEN <<>>
  ELSE sortByCount(pushStreaks(h, allIds(h), <<>>), <<>>)

(***************************************************************************)
(* Inputs of isNextMonth: every pair of months of a few years.             *)
(***************************************************************************)
FirstYear == 2024

Months == (FirstYear..(FirstYear + MaxYears)) \X (1..12)

InitIsNextMonth ==
  /\ pc = "start"
  /\ monthA \in Months
  /\ monthB \in Months
  /\ nextMonth = FALSE
  /\ history = <<>>
  /\ streaks = <<>>
  /\ description = <<>>
  /\ category = "none"
  /\ kw = <<>>
  /\ matched = "none"
  /\ txns = <<>>
  /\ categorized = <<>>
  /\ awards = <<>>
  /\ PageIdle
  /\ WalkIdle

IsNextMonth ==
  /\ pc = "start"
  /\ nextMonth' = isNextMonth(monthA, monthB)
  /\ pc' = "done"
  /\ UNCHANGED <<monthA, monthB, history, streaks, description, category, kw,
                 matched, txns, categorized, awards, pageVars, walk>>

NextIsNextMonth == IsNextMonth

SpecIsNextMonth == InitIsNextMonth /\ [][NextIsNextMonth]_vars

(***************************************************************************)
(* Inputs of findCurrentStreaks: what the history query can return, rows   *)
(* of distinct months in ascending order.  The months come from a window   *)
(* with a gap and a turn of the year.                                      *)
(***************************************************************************)
StreakMonths == <<<<2024, 1>>, <<2024, 11>>, <<2024, 12>>, <<2025, 1>>, <<2025, 2>>>>

StreakIds == {"indice_godin", "martir_comisiones"}

(* The values of awards_won: calculateAwards names each award once. *)
AwardsWonValues ==
  {ids \in SeqsUpTo(StreakIds, Cardinality(StreakIds)) :
     \A i, j \in 1..Len(ids) : ids[i] = ids[j] => i = j}

HistoryRow(m, won) == [month |-> m, total_spent |-> zero, awards_won |-> won]

StreakHistories ==
  UNION {
    UNION {
      {[i \in 1..n |-> HistoryRow(StreakMonths[ix[i]], won[i])] :
         won \in [1..n -> AwardsWonValues]} :
      ix \in {f \in [1..n -> 1..Len(StreakMonths)] :
                \A i, j \in 1..n : i < j => f[i] < f[j]}} :
    n \in 0..MaxHistory}

InitStreaks ==
  /\ pc = "start"
  /\ history \in StreakHistories
  /\ streaks = <<>>
  /\ monthA = <<>>
  /\ monthB = <<>>
  /\ nextMonth = FALSE
  /\ description = <<>>
  /\ category = "none"
  /\ kw = <<>>
  /\ matched = "none"
  /\ txns = <<>>
  /\ categorized = <<>>
  /\ awards = <<>>
  /\ PageIdle
  /\ WalkIdle

FindCurrentStreaks ==
  /\ pc = "start"
  /\ streaks' = findCurrentStreaks(history)
  /\ pc' = "done"
  /\ UNCHANGED <<history, monthA, monthB, nextMonth, description, category, kw,
                 matched, txns, categorized, awards, pageVars, walk>>

NextStreaks == FindCurrentStreaks

SpecStreaks == InitStreaks /\ [][NextStreaks]_vars

(***************************************************************************)
(* Claims about months and streaks                                         *)
(***************************************************************************)
(* The number of a month on the calendar, counting across years. *)
MonthIndex(m) == 12 * m[1] + m[2]

(* C13: isNextMonth(a, b) is true exactly when b is the calendar month     *)
(* right after a, December being followed by January of the next year; it  *)
(* is false for the same month, for a gap of two months or more, for an    *)
(* earlier b, and for the same month number of another year.               *)
C13_IsNextMonthExact ==
  pc = "done" /\ monthA # <<>> =>
    /\ nextMonth = (MonthIndex(monthB) = MonthIndex(monthA) + 1)
    /\ monthB = monthA => ~nextMonth
    /\ MonthIndex(monthB) >= MonthIndex(monthA) + 2 => ~nextMonth
    /\ MonthIndex(monthB) < MonthIndex(monthA) => ~nextMonth
    /\ monthB[2] = monthA[2] /\ monthB[1] # monthA[1] => ~nextMonth

(* December is followed by January of the next year. *)
C13_Witness ==
  /\ pc = "done"
  /\ monthA # <<>>
  /\ monthA[2] = 12
  /\ monthB = <<monthA[1] + 1, 1>>
  /\ nextMonth

(* Whether the k newest rows of the history are a run of the award: it was *)
(* won in each, and each but the newest is exactly one calendar month      *)
(* before the next newer row.                                              *)
IsRun(h, id, k) ==
  \A j \in (Len(h) - k + 1)..Len(h) :
    /\ id \in Range(h[j].awards_won)
    /\ j < Len(h) => MonthIndex(h[j + 1].month) = MonthIndex(h[j].month) + 1

(* The walk stops at the first break: the longest run. *)
RunLength(h, id) == Max({k \in 0..Len(h) : \A n \in 0..k : IsRun(h, id, n)})

Reported(id) == \E k \in 1..Len(streaks) : streaks[k].awardId = id

CountOf(id) == streaks[CHOOSE k \in 1..Len(streaks) : streaks[k].awardId = id].count

(* C11: the count of a streak is the number of months counted by walking   *)
(* back from the most recent month while the award was won in the month    *)
(* examined and that month is exactly one calendar month before the next   *)
(* newer one, stopping at the first break; a missing month breaks the      *)
(* streak, and three consecutive months with the award give the count 3.   *)
C11_StreakCount ==
  pc = "done" /\ Len(history) >= 2 =>
    \A id \in StreakIds :
      /\ Reported(id) => CountOf(id) = RunLength(history, id)
      /\ RunLength(history, id) >= 2 => Reported(id)
      /\ (/\ Len(history) = 3
          /\ IsRun(history, id, 3)) => Reported(id) /\ CountOf(id) = 3

(* The award was won in all four months, and a missing month cut the       *)
(* streak to the three newest.                                             *)
C11_Witness ==
  /\ pc = "done"
  /\ Len(history) = 4
  /\ \E id \in StreakIds :
       /\ \A j \in 1..4 : id \in Range(history[j].awards_won)
       /\ Reported(id)
       /\ CountOf(id) = 3

(* C12: findCurrentStreaks returns nothing for a history of no or one      *)
(* month, never reports an award that the most recent month did not win,   *)
(* reports counts between 2 and the length of the history, reports each    *)
(* award at most once, and orders the streaks by non-increasing count.     *)
C12_StreaksWellFormed ==
  pc = "done" /\ monthA = <<>> =>
    /\ Len(history) < 2 => streaks = <<>>
    /\ \A k \in 1..Len(streaks) :
         /\ streaks[k].awardId \in Range(history[Len(history)].awards_won)
         /\ streaks[k].count >= 2
         /\ streaks[k].count <= Len(history)
    /\ \A i, j \in 1..Len(streaks) :
         streaks[i].awardId = streaks[j].awardId => i = j
    /\ \A i, j \in 1..Len(streaks) :
         i < j => streaks[i].count >= streaks[j].count

(* Two streaks, and the longer one is of the award that comes second in    *)
(* the rows: the sort moved it to the front.                               *)
C12_Witness ==
  /\ pc = "done"
  /\ Len(streaks) = 2
  /\ streaks[1].count > streaks[2].count
  /\ allIds(history)[1] = streaks[2].awardId

(***************************************************************************)
(* app/page.tsx: the summary of a statement                                *)
(***************************************************************************)
(* new Date().toISOString().slice(0, 7): the month of the clock. *)
today == <<2025, 8>>

(* counts.set(key, (counts.get(key) ?? 0) + 1) for each key: the entries   *)
(* <<key, count>> of the Map, in the order of insertion.                   *)
RECURSIVE countEntries(_, _)
countEntries(keys, entries) ==
  IF keys = <<>> THEN entries
  ELSE LET key == Head(keys)
       IN  countEntries(Tail(keys),
             IF \E i \in 1..Len(entries) : entries[i][1] = key
               THEN [i \in 1..Len(entries) |->
                       IF entries[i][1] = key
                         THEN <<key, entries[i][2] + 1>>
                         ELSE entries[i]]
               ELSE Append(entries, <<key, 1>>))

(* .sort((a, b) => b[1] - a[1]): stable, descending by count. *)
RECURSIVE insertEntry(_, _)
insertEntry(sorted, x) ==
  IF sorted = <<>> THEN <<x>>
  ELSE IF Head(sorted)[2] < x[2] THEN <<x>> \o sorted
  ELSE <<Head(sorted)>> \o insertEntry(Tail(sorted), x)

RECURSIVE sortEntries(_, _)
sortEntries(xs, acc) ==
  IF xs = <<>> THEN acc
  ELSE sortEntries(Tail(xs), insertEntry(acc, Head(xs)))

(* [...counts.entries()].sort(...)[0]?.[0] ?? fallback *)
mostCommon(keys, fallback) ==
  LET sorted == sortEntries(countEntries(keys, <<>>), <<>>)
  IN  IF sorted = <<>> THEN fallback ELSE sorted[1][1]

getMostCommonMonth(ts) ==
  mostCommon([i \in 1..Len(ts) |-> slice7(ts[i].date)], today)

getTopCategory(ts) ==
  mostCommon([i \in 1..Len(ts) |-> ts[i].category], "other")

ALL_CATEGORIES ==
  <<"convenience_store", "rideshare", "food_delivery", "restaurant_cafe",
    "supermarket", "cash_withdrawal", "subscription_gym", "ecommerce",
    "pharmacy_health", "spei_transfer", "bank_fee", "gas_transport",
    "education", "other">>

getCategoryTotals(ts) ==
  [c \in Range(ALL_CATEGORIES) |->
     sumAbs(SelectSeq(ts, LAMBDA t : lessThan(t.amount, zero) /\ t.category = c))]

(* txns.filter(t => t.amount < 0).reduce((s, t) => s + Math.abs(t.amount), 0) *)
totalSpent(ts) == sumAbs(SelectSeq(ts, LAMBDA t : lessThan(t.amount, zero)))

(* awards.map(a => a.id) of the first four awards only. *)
awardsWon_Top4(as) == [i \in 1..Min({4, Len(as)}) |-> as[i].id]

(* awards.map(a => a.id) *)
awardsWon(as) == [i \in 1..Len(as) |-> as[i].id]

(* xs.slice(from, to) for 0 <= from <= to. *)
slice(xs, from, to) == SubSeq(xs, from + 1, Min({to, Len(xs)}))

(* The row that handleFile hands to upsert. *)
summaryRow(sessionId, ts, cs, as) ==
  [session_id        |-> sessionId,
   month             |-> getMostCommonMonth(ts),
   total_spent       |-> totalSpent(ts),
   top_category      |-> getTopCategory(cs),
   awards_won        |-> awardsWon(as),
   transaction_count |-> Len(cs),
   category_totals   |-> getCategoryTotals(cs)]

(***************************************************************************)
(* The table quincena_results                                              *)
(***************************************************************************)
sameKey(r, q) == r.session_id = q.session_id /\ r.month = q.month

(* An insert that ignores the conflict target. *)
upsert_Insert(table, row) == table \cup {row}

(* .upsert(row, { onConflict: "session_id,month" }) *)
upsert(table, row) == {r \in table : ~sameKey(r, row)} \cup {row}

monthLess(a, b) == a[1] < b[1] \/ (a[1] = b[1] /\ a[2] < b[2])

(* .order("month", { ascending: true }) *)
RECURSIVE orderByMonth(_)
orderByMonth(rows) ==
  IF rows = {} THEN <<>>
  ELSE LET first == CHOOSE r \in rows : \A q \in rows : ~monthLess(q.month, r.month)
       IN  <<first>> \o orderByMonth(rows \ {first})

(* The query without .eq("session_id", sessionId). *)
selectHistory_AllSessions(table, sessionId) ==
  LET rows == orderByMonth(table)
  IN  [i \in 1..Len(rows) |->
         [month |-> rows[i].month, total_spent |-> rows[i].total_spent,
          awards_won |-> rows[i].awards_won]]

(* .select("month, total_spent, awards_won").eq("session_id", sessionId)   *)
(* .order("month", { ascending: true })                                    *)
selectHistory(table, sessionId) ==
  LET rows == orderByMonth({r \in table : r.session_id = sessionId})
  IN  [i \in 1..Len(rows) |->
         [month |-> rows[i].month, total_spent |-> rows[i].total_spent,
          awards_won |-> rows[i].awards_won]]

(***************************************************************************)
(* Home: uploads of one browser session.  The statements are what          *)
(* parseFile can return for the months of a window: one that wins five     *)
(* awards, one that wins one, one that wins none, one that runs over the   *)
(* end of the month, and the empty list.                                   *)
(***************************************************************************)
MaxMonths == 3

UploadYear == 2025

UploadMonths == {<<UploadYear, 4 + k>> : k \in 1..MaxMonths}

Big(m) ==
  << Txn(<<m[1], m[2], 12>>, -20, OXXO),
     Txn(<<m[1], m[2], 12>>, -20, OXXO),
     Txn(<<m[1], m[2], 13>>, -2, COMISION),
     Txn(<<m[1], m[2], 14>>, -200, UBER),
     Txn(<<m[1], m[2], 15>>, -600, AMAZON) >>

Small(m) ==
  << Txn(<<m[1], m[2], 12>>, -20, OXXO),
     Txn(<<m[1], m[2], 12>>, -20, OXXO) >>

Clean(m) == << Txn(<<m[1], m[2], 5>>, 80, NOMINA) >>

(* One purchase on the 30th and two in the first days of the next month. *)
Straddle(m) ==
  << Txn(<<m[1], m[2], 30>>, -20, OXXO),
     Txn(<<m[1], m[2] + 1, 1>>, -20, OXXO),
     Txn(<<m[1], m[2] + 1, 2>>, -20, OXXO) >>

Statements ==
  {<<>>} \cup {Big(m) : m \in UploadMonths} \cup {Small(m) : m \in UploadMonths}
         \cup {Clean(m) : m \in UploadMonths} \cup {Straddle(m) : m \in UploadMonths}

(* The session_id of the cookie of this browser, and one of another. *)
SESSION == "session"

OTHER_SESSION == "other"

(* A summary saved by the other browser. *)
OtherRow ==
  summaryRow(OTHER_SESSION, Small(<<UploadYear, 6>>),
             categorizeTransactions(Small(<<UploadYear, 6>>)),
             calculateAwards(categorizeTransactions(Small(<<UploadYear, 6>>))))

NO_TRANSACTIONS == "No se encontraron transacciones. Verifica el formato del archivo."

UNSUPPORTED == "Tipo de archivo no soportado. Sube un .csv o .pdf."

UPSERT_FAILED == "upsert failed"

(* !txns.length, never true. *)
noTransactions_Never(ts) == FALSE

(* !txns.length *)
noTransactions(ts) == Len(ts) = 0

InitPage ==
  /\ pc = "landing"
  /\ store = {OtherRow}
  /\ month = <<>>
  /\ results = <<>>
  /\ loading = FALSE
  /\ error = "null"
  /\ upsertErr = "null"
  /\ previous = {OtherRow}
  /\ txns = <<>>
  /\ categorized = <<>>
  /\ awards = <<>>
  /\ description = <<>>
  /\ category = "none"
  /\ kw = <<>>
  /\ matched = "none"
  /\ StreaksIdle
  /\ WalkIdle

(* The user picks a file in the landing view: handleFile up to the await   *)
(* of parseFile.                                                           *)
HandleFile ==
  /\ pc = "landing"
  /\ loading' = TRUE
  /\ error' = "null"
  /\ txns' = <<>>
  /\ categorized' = <<>>
  /\ awards' = <<>>
  /\ month' = <<>>
  /\ history' = <<>>
  /\ upsertErr' = "null"
  /\ previous' = store
  /\ pc' = "parsing"
  /\ UNCHANGED <<store, results, streaks, monthA, monthB, nextMonth,
                 description, category, kw, matched, walk>>

(* parseFile throws: the catch and the finally. *)
ParseRejected ==
  /\ pc = "parsing"
  /\ error' = UNSUPPORTED
  /\ loading' = FALSE
  /\ pc' = "landing"
  /\ UNCHANGED <<store, results, streaks, txns, categorized, awards, month,
                 history, upsertErr, monthA, monthB, nextMonth,
                 description, category, kw, matched, previous, walk>>

(* parseFile returns no transaction: the throw, the catch and the finally. *)
ParseEmpty ==
  /\ pc = "parsing"
  /\ \E ts \in Statements :
       /\ noTransactions(ts)
       /\ txns' = ts
  /\ error' = NO_TRANSACTIONS
  /\ loading' = FALSE
  /\ pc' = "landing"
  /\ UNCHANGED <<store, results, streaks, categorized, awards, month,
                 history, upsertErr, monthA, monthB, nextMonth,
                 description, category, kw, matched, previous, walk>>

(* parseFile returns transactions: handleFile up to the await of upsert. *)
ParseOk ==
  /\ pc = "parsing"
  /\ \E ts \in Statements :
       /\ ~noTransactions(ts)
       /\ txns' = leftByCategorizeTransactions(ts)
  /\ categorized' = leftByCalculateAwards(categorizeTransactions(txns'))
  /\ awards' = calculateAwards(categorized')
  /\ month' = getMostCommonMonth(txns')
  /\ pc' = "upserting"
  /\ UNCHANGED <<store, results, streaks, loading, error, history, upsertErr,
                 monthA, monthB, nextMonth, description, category, kw, matched,
                 previous, walk>>

(* The upsert is done: handleFile up to the await of the history query. *)
UpsertOk ==
  /\ pc = "upserting"
  /\ store' = upsert(store, summaryRow(SESSION, txns, categorized, awards))
  /\ upsertErr' = "null"
  /\ pc' = "querying"
  /\ UNCHANGED <<results, streaks, loading, error, txns, categorized, awards,
                 month, history, monthA, monthB, nextMonth,
                 description, category, kw, matched, previous, walk>>

(* The upsert fails: the error is logged and handleFile goes on. *)
UpsertError ==
  /\ pc = "upserting"
  /\ upsertErr' = UPSERT_FAILED
  /\ pc' = "querying"
  /\ UNCHANGED <<store, results, streaks, loading, error, txns, categorized,
                 awards, month, history, monthA, monthB, nextMonth,
                 description, category, kw, matched, previous, walk>>

(* The results view: what it shows of the state results. *)
render(h) == IF Len(h) >= 2 THEN findCurrentStreaks(h) ELSE <<>>

(* The query returns the rows: setResults, the finally and the render. *)
QueryOk ==
  /\ pc = "querying"
  /\ history' = selectHistory(store, SESSION)
  /\ results' = <<[awards |-> awards, month |-> month, history |-> history']>>
  /\ streaks' = render(history')
  /\ loading' = FALSE
  /\ pc' = "results"
  /\ UNCHANGED <<store, error, txns, categorized, awards, month, upsertErr,
                 monthA, monthB, nextMonth, description, category, kw, matched,
                 previous, walk>>

(* The query fails, historyData is null. *)
QueryNull ==
  /\ pc = "querying"
  /\ history' = <<>>
  /\ results' = <<[awards |-> awards, month |-> month, history |-> history']>>
  /\ streaks' = render(history')
  /\ loading' = FALSE
  /\ pc' = "results"
  /\ UNCHANGED <<store, error, txns, categorized, awards, month, upsertErr,
                 monthA, monthB, nextMonth, description, category, kw, matched,
                 previous, walk>>

(* The button "Analizar otro mes". *)
Reset ==
  /\ pc = "results"
  /\ results' = <<>>
  /\ error' = "null"
  /\ streaks' = <<>>
  /\ pc' = "landing"
  /\ UNCHANGED <<store, loading, txns, categorized, awards, month, history,
                 upsertErr, monthA, monthB, nextMonth,
                 description, category, kw, matched, previous, walk>>

NextPage ==
  \/ HandleFile
  \/ ParseRejected
  \/ ParseEmpty
  \/ ParseOk
  \/ UpsertOk
  \/ UpsertError
  \/ QueryOk
  \/ QueryNull
  \/ Reset

SpecPage == InitPage /\ [][NextPage]_vars

(* The cards of the results view: awards.slice(0, 4).map(...) *)
shownAwards == IF results = <<>> THEN <<>> ELSE slice(results[1].awards, 0, 4)

(* The awards of the share text: buildWhatsAppUrl, or no link at all. *)
sharedAwards ==
  IF results = <<>> \/ Len(results[1].awards) = 0 THEN <<>>
  ELSE slice(results[1].awards, 0, 4)

(***************************************************************************)
(* Claims about the uploads                                                *)
(***************************************************************************)
KeyOf(r) == <<r.session_id, r.month>>

(* C14: the table holds one row per (session_id, month); an upload for a   *)
(* month that has a row replaces the total_spent, top_category,            *)
(* awards_won, transaction_count and category_totals of that row together  *)
(* by the values of the new upload, and leaves every other row alone.      *)
C14_OneRowPerSessionMonth ==
  /\ \A r, q \in store : KeyOf(r) = KeyOf(q) => r = q
  /\ pc \in {"querying", "results"} /\ upsertErr = "null" =>
       /\ \E r \in store :
            /\ KeyOf(r) = <<SESSION, month>>
            /\ r.total_spent = totalSpent(txns)
            /\ r.top_category = getTopCategory(categorized)
            /\ r.awards_won = [i \in 1..Len(awards) |-> awards[i].id]
            /\ r.transaction_count = Len(txns)
            /\ r.category_totals = getCategoryTotals(categorized)
       /\ {r \in store : KeyOf(r) # <<SESSION, month>>} =
            {r \in previous : KeyOf(r) # <<SESSION, month>>}

(* The upload replaced a row of its month by a different one, next to a    *)
(* row of another month.                                                   *)
C14_Witness ==
  /\ pc = "querying"
  /\ upsertErr = "null"
  /\ \E r \in previous : KeyOf(r) = <<SESSION, month>> /\ r \notin store
  /\ \E q \in store : q.session_id = SESSION /\ q.month # month

(* The month that is k months before the month m. *)
MonthBefore(m, k) ==
  LET i == MonthIndex(m) - k - 1
  IN  <<i \div 12, (i % 12) + 1>>

(* Whether the session has a summary of the month m with the award. *)
WonIn(id, m) ==
  \E r \in store :
    r.session_id = SESSION /\ r.month = m /\ id \in Range(r.awards_won)

(* The latest month of which the session has a summary. *)
LatestStored ==
  CHOOSE m \in {r.month : r \in {q \in store : q.session_id = SESSION}} :
    \A r \in store : r.session_id = SESSION => MonthIndex(r.month) <= MonthIndex(m)

C16_EmptyListIsError ==
  /\ pc \in {"upserting", "querying", "results"} => txns # <<>>
  /\ error = NO_TRANSACTIONS =>
       /\ pc = "landing"
       /\ txns = <<>>
       /\ categorized = <<>>
       /\ awards = <<>>
       /\ store = previous
       /\ history = <<>>
       /\ streaks = <<>>
       /\ results = <<>>
       /\ loading = FALSE

(* The empty file came after a saved upload. *)
C16_Witness ==
  /\ pc = "landing"
  /\ error = NO_TRANSACTIONS
  /\ \E r \in store : r.session_id = SESSION

(* C17: the awards_won of the saved summary are the ids of all triggered   *)
(* awards, while the results view and the share text use the first         *)
(* min(4, n) awards of the ranked list, those of highest trigger_value.    *)
C17_AllAwardsPersisted ==
  /\ pc \in {"querying", "results"} /\ upsertErr = "null" =>
       \E r \in store :
         /\ KeyOf(r) = <<SESSION, month>>
         /\ Len(r.awards_won) = Len(awards)
         /\ \A i \in 1..Len(awards) : r.awards_won[i] = awards[i].id
         /\ \A k \in 1..8 :
              evaluate(k, categorized) # null => AwardIds[k] \in Range(r.awards_won)
  /\ pc = "results" =>
       LET n == Len(awards)
           m == IF n < 4 THEN n ELSE 4
       IN  /\ shownAwards = [i \in 1..m |-> awards[i]]
           /\ sharedAwards = [i \in 1..m |-> awards[i]]
           /\ \A i \in 1..m : \A j \in (m + 1)..n :
                ~lessThan(awards[i].trigger_value, awards[j].trigger_value)

(* The fifth award of the upload is not shown, and it has a streak. *)
C17_Witness ==
  /\ pc = "results"
  /\ upsertErr = "null"
  /\ Len(awards) > 4
  /\ \E n \in 1..Len(streaks) :
       /\ streaks[n].awardId = awards[5].id
       /\ \A i \in 1..Len(shownAwards) : shownAwards[i].id # streaks[n].awardId

(***************************************************************************)
(* Statements for the detectors that count or pick transactions of one     *)
(* category: convenience stores, cash withdrawals, online purchases.       *)
(***************************************************************************)
MaxGodinTxns == 3

MaxCashTxns == 5

MaxMerezcoTxns == 3

(* Two store purchases, a purchase at the station, and a refund. *)
GodinPool ==
  { Txn(<<2025, 6, 3>>, -35, OXXO_TIENDA),
    Txn(<<2025, 6, 3>>, -500, OXXO_GAS),
    Txn(<<2025, 6, 4>>, -20, OXXO),
    Txn(<<2025, 6, 4>>, 20, OXXO) }

(* Withdrawals and a deposit at the machine. *)
CashPool ==
  { Txn(<<2025, 6, 2>>, -500, RETIRO),
    Txn(<<2025, 6, 3>>, -300, RETIRO),
    Txn(<<2025, 6, 3>>, 500, RETIRO) }

(* Online purchases of 500 and more on and off the paydays, a refund, and   *)
(* a purchase of another category.                                         *)
MerezcoPool ==
  { Txn(<<2025, 7, 15>>, -600, AMAZON),
    Txn(<<2025, 7, 30>>, -600, SHEIN),
    Txn(<<2025, 7, 31>>, -700, SHEIN),
    Txn(<<2025, 7, 15>>, -500, AMAZON),
    Txn(<<2025, 7, 15>>, -501, SHEIN),
    Txn(<<2025, 7, 16>>, -900, AMAZON),
    Txn(<<2025, 7, 15>>, 800, AMAZON),
    Txn(<<2025, 7, 15>>, -800, OXXO) }

MaxUberTxns == 3

MaxSmartfitTxns == 6

(* The amounts of the rides in hundredths: three that add up to 200.00, a  *)
(* ride of 200, one of 199, one of 1, and a refund.                        *)
UberCents == {-9627, -8182, -2191, -20000, -19900, -100, 10000}

UberPool == {TxnCents(<<2025, 6, 3>>, c, UBER) : c \in UberCents}

(* The gym fee charged and refunded, a delivery and its refund. *)
SmartfitPool ==
  { Txn(<<2025, 6, 2>>, -300, SMARTFIT),
    Txn(<<2025, 6, 2>>, 300, SMARTFIT),
    Txn(<<2025, 6, 2>>, -100, RAPPI),
    Txn(<<2025, 6, 2>>, 100, RAPPI) }

DetectorInputs ==
  SeqsUpTo(GodinPool, MaxGodinTxns) \cup SeqsUpTo(CashPool, MaxCashTxns) \cup
  SeqsUpTo(MerezcoPool, MaxMerezcoTxns) \cup SeqsUpTo(UberPool, MaxUberTxns) \cup
  SeqsUpTo(SmartfitPool, MaxSmartfitTxns)

InitDetectors ==
  /\ pc = "start"
  /\ txns \in DetectorInputs
  /\ categorized = <<>>
  /\ awards = <<>>
  /\ description = <<>>
  /\ category = "none"
  /\ kw = <<>>
  /\ matched = "none"
  /\ StreaksIdle
  /\ PageIdle
  /\ WalkIdle

SpecDetectors == InitDetectors /\ [][NextAwards]_vars

(***************************************************************************)
(* Claims about the counting and picking detectors                         *)
(***************************************************************************)
OutflowsOf(c) ==
  {i \in 1..Len(categorized) :
     categorized[i].category = c /\ lessThan(categorized[i].amount, zero)}

(* The sum of the magnitudes of whole amounts, as an integer. *)
RECURSIVE Magnitudes(_)
Magnitudes(I) ==
  IF I = {} THEN 0
  ELSE LET i == CHOOSE i \in I : TRUE
       IN  categorized[i].amount.units + Magnitudes(I \ {i})

(* C18: indice_godin is awarded exactly when two or more transactions of   *)
(* category convenience_store have an amount below 0, with the number of   *)
(* them as trigger_value; a purchase "OXXO TIENDA 123" and a purchase      *)
(* "OXXO GAS STATION", which is gas_transport, do not trigger it, and      *)
(* inflows are not counted.                                                *)
C18_IndiceGodin ==
  pc = "awarded" =>
    LET n == Cardinality(OutflowsOf("convenience_store"))
        won == AwardWon("indice_godin")
    IN  /\ (won # null) = (n >= 2)
        /\ n >= 2 => won.trigger_value = whole(n)
        /\ \A i \in 1..Len(txns) :
             txns[i].description = OXXO_GAS => categorized[i].category = "gas_transport"
        /\ (/\ Len(txns) = 2
            /\ txns[1].description = OXXO_TIENDA /\ txns[1].amount.neg
            /\ txns[2].description = OXXO_GAS /\ txns[2].amount.neg) => won = null

(* Two store purchases trigger the award next to a refund or a purchase at *)
(* the station, which are not counted.                                     *)
C18_Witness ==
  /\ pc = "awarded"
  /\ Len(txns) = 3
  /\ \E i \in 1..3 : txns[i].description = OXXO_GAS \/ ~txns[i].amount.neg
  /\ AwardWon("indice_godin") # null
  /\ AwardWon("indice_godin").trigger_value = whole(2)

(* C19: hoyo_negro_efectivo is awarded exactly when four or more           *)
(* transactions of category cash_withdrawal have an amount below 0, with   *)
(* the number of them as trigger_value; the message cites that number and  *)
(* the sum of their magnitudes, 4 and 2000 for four withdrawals of 500.    *)
C19_HoyoNegroEfectivo ==
  pc = "awarded" =>
    LET n == Cardinality(OutflowsOf("cash_withdrawal"))
        won == AwardWon("hoyo_negro_efectivo")
    IN  /\ (won # null) = (n >= 4)
        /\ n >= 4 =>
             /\ won.trigger_value = whole(n)
             /\ won.roast = <<n, whole(Magnitudes(OutflowsOf("cash_withdrawal")))>>
        /\ (/\ Len(txns) = 4
            /\ \A i \in 1..4 : txns[i].description = RETIRO /\ txns[i].amount = whole(-500))
             => won # null /\ won.roast = <<4, whole(2000)>>

(* Four withdrawals and a deposit: the count is 4. *)
C19_Witness ==
  /\ pc = "awarded"
  /\ Len(txns) = 5
  /\ \E i \in 1..5 : txns[i].description = RETIRO /\ ~txns[i].amount.neg
  /\ AwardWon("hoyo_negro_efectivo") # null
  /\ AwardWon("hoyo_negro_efectivo").trigger_value = whole(4)

(* The online purchases below -500 of a 15th, 30th or 31st. *)
Splurges ==
  {i \in 1..Len(categorized) :
     /\ categorized[i].category = "ecommerce"
     /\ lessThan(categorized[i].amount, whole(-500))
     /\ categorized[i].date[3] \in {15, 30, 31}}

(* The first in the list of those of largest magnitude. *)
BiggestSplurge ==
  CHOOSE i \in Splurges :
    \A j \in Splurges :
      /\ ~lessThan(categorized[j].amount, categorized[i].amount)
      /\ categorized[j].amount = categorized[i].amount => i <= j

(* C20: sindrome_me_lo_merezco is awarded exactly when some ecommerce      *)
(* transaction has an amount below -500 (exactly -500 does not count) on   *)
(* a day of month 15, 30 or 31; the message refers to the one of largest   *)
(* magnitude, the first in list order among equals, and trigger_value is   *)
(* that magnitude.                                                         *)
C20_SindromeMeLoMerezco ==
  pc = "awarded" =>
    LET won == AwardWon("sindrome_me_lo_merezco")
    IN  /\ (won # null) = (Splurges # {})
        /\ \A i \in 1..Len(categorized) :
             categorized[i].amount = whole(-500) => i \notin Splurges
        /\ Splurges # {} =>
             LET t == categorized[BiggestSplurge]
             IN  /\ won.trigger_value = abs(t.amount)
                 /\ won.roast[1] = t.date
                 /\ won.roast[3] = t.description

(* Two purchases of 600 qualify, and the later in date comes first in the  *)
(* list: the message refers to it.                                         *)
C20_Witness ==
  /\ pc = "awarded"
  /\ Len(txns) = 3
  /\ txns[1].description = SHEIN /\ txns[1].amount = whole(-600)
  /\ txns[2].description = AMAZON /\ txns[2].amount = whole(-600)
  /\ txns[3].amount = whole(-500)
  /\ AwardWon("sindrome_me_lo_merezco") # null
  /\ AwardWon("sindrome_me_lo_merezco").roast[3] = SHEIN

(***************************************************************************)
(* Claims about the ride-share and the gym-and-delivery detectors          *)
(***************************************************************************)
(* The amount of a ride of the statement in hundredths, as printed.        *)
CentsOf(amount) == CHOOSE c \in UberCents : parseFloat(c) = amount

RECURSIVE SumCents(_)
SumCents(I) ==
  IF I = {} THEN 0
  ELSE LET i == CHOOSE i \in I : TRUE
       IN  SumCents(I \ {i}) - CentsOf(categorized[i].amount)

(* C21: accionista_uber is awarded exactly when the magnitudes of the      *)
(* rideshare transactions with an amount below 0 add up to 200 or more (a  *)
(* total of exactly 200 triggers, 199 does not), with that total as        *)
(* trigger_value; refunds do not reduce the total.                         *)
C21_AccionistaUber ==
  pc = "awarded" /\ (\A i \in 1..Len(txns) : txns[i] \in UberPool) =>
    LET total == SumCents(OutflowsOf("rideshare"))
        won == AwardWon("accionista_uber")
    IN  /\ (won # null) = (total >= 20000)
        /\ total >= 20000 => won.trigger_value = parseFloat(total)

(* C22: socio_honorario_smartfit is awarded exactly when at least one      *)
(* transaction of either sign has category subscription_gym and at least   *)
(* five transactions have category food_delivery and an amount below 0,    *)
(* with the number of those delivery outflows as trigger_value.            *)
C22_SocioSmartfit ==
  pc = "awarded" =>
    LET gym == {i \in 1..Len(categorized) : categorized[i].category = "subscription_gym"}
        n == Cardinality(OutflowsOf("food_delivery"))
        won == AwardWon("socio_honorario_smartfit")
    IN  /\ (won # null) = (gym # {} /\ n >= 5)
        /\ won # null => won.trigger_value = whole(n)

(* The only gym transaction is a refund, and five deliveries were paid. *)
C22_Witness ==
  /\ pc = "awarded"
  /\ Len(txns) = 6
  /\ \E i \in 1..6 : txns[i].description = SMARTFIT
  /\ \A i \in 1..6 : txns[i].description = SMARTFIT => ~txns[i].amount.neg
  /\ AwardWon("socio_honorario_smartfit") # null
  /\ AwardWon("socio_honorario_smartfit").trigger_value = whole(5)

(***************************************************************************)
(* sobrevivienteExtremo: the while loop, one pass of its body at a time.   *)
(***************************************************************************)
MaxWalkDays == 3    \* days from the first to the last transaction date
MaxWalkSteps == 6   \* passes through the body of the loop that are followed

(* Runs of consecutive calendar days, written out: the end of February in  *)
(* leap and common years, the end of a 30-day month, the end of a year,    *)
(* and the same in years written with leading zeros and in the last year   *)
(* four digits can write.                                                  *)
Windows ==
  { << <<2024, 2, 27>>, <<2024, 2, 28>>, <<2024, 2, 29>>, <<2024, 3, 1>> >>,
    << <<2025, 2, 27>>, <<2025, 2, 28>>, <<2025, 3, 1>>, <<2025, 3, 2>> >>,
    << <<1900, 2, 27>>, <<1900, 2, 28>>, <<1900, 3, 1>> >>,
    << <<2000, 2, 28>>, <<2000, 2, 29>>, <<2000, 3, 1>> >>,
    << <<2025, 4, 29>>, <<2025, 4, 30>>, <<2025, 5, 1>> >>,
    << <<2025, 12, 30>>, <<2025, 12, 31>>, <<2026, 1, 1>>, <<2026, 1, 2>> >>,
    << <<999, 1, 30>>, <<999, 1, 31>>, <<999, 2, 1>>, <<999, 2, 2>> >>,
    << <<50, 1, 1>>, <<50, 1, 2>>, <<50, 1, 3>> >>,
    << <<9999, 12, 29>>, <<9999, 12, 30>>, <<9999, 12, 31>> >> }

WalkAmounts == {-100, 30}

WalkDatePairs ==
  UNION {{<<w[p[1]], w[p[2]]>> :
            p \in {q \in (1..Len(w)) \X (1..Len(w)) :
                     q[1] - q[2] <= MaxWalkDays /\ q[2] - q[1] <= MaxWalkDays}} :
         w \in Windows}

(* Statements of one or two transactions dated in one window, in either    *)
(* order of date, and the empty statement.                                 *)
WalkInputs ==
  {<<>>}
  \cup {<<Txn(p[1], a, OXXO)>> : p \in WalkDatePairs, a \in WalkAmounts}
  \cup {<<Txn(p[1], a, OXXO), Txn(p[2], b, RAPPI)>> :
          p \in WalkDatePairs, a \in WalkAmounts, b \in WalkAmounts}

InitWalk ==
  /\ pc = "start"
  /\ txns \in WalkInputs
  /\ categorized = <<>>
  /\ awards = <<>>
  /\ description = <<>>
  /\ category = "none"
  /\ kw = <<>>
  /\ matched = "none"
  /\ StreaksIdle
  /\ PageIdle
  /\ WalkIdle

(* sobrevivienteExtremo up to the loop: nothing to walk on an empty list;  *)
(* otherwise the dates are sorted and the loop variables set.              *)
WalkStart ==
  /\ pc = "categorized"
  /\ IF Len(categorized) = 0
       THEN pc' = "walked" /\ UNCHANGED walk
       ELSE LET sorted == sortByDate(categorized)
            IN  /\ pc' = "walking"
                /\ walk' = [current |-> sorted[1].date,
                            lastDate |-> sorted[Len(sorted)].date,
                            running |-> zero,
                            lowest |-> <<>>,
                            visited |-> <<>>]
  /\ UNCHANGED <<txns, categorized, awards, description, category, kw, matched,
               streakVars, pageVars>>

(* One pass through the body of the loop. *)
WalkStep ==
  /\ pc = "walking"
  /\ dateLessEq(walk.current, walk.lastDate)
  /\ Len(walk.visited) < MaxWalkSteps
  /\ LET r == plus(walk.running, netByDate(sortByDate(categorized), walk.current))
         day == dom(walk.current)
         low == IF day \in {13, 14, 28, 29} /\ lessThan(r, whole(50))
                     /\ (walk.lowest = <<>> \/ lessThan(r, walk.lowest[1]))
                  THEN <<r, walk.current>>
                  ELSE walk.lowest
     IN  walk' = [current |-> nextDay(walk.current),
                  lastDate |-> walk.lastDate,
                  running |-> r,
                  lowest |-> low,
                  visited |-> Append(walk.visited, walk.current)]
  /\ UNCHANGED <<pc, txns, categorized, awards, description, category, kw, matched,
               streakVars, pageVars>>

(* The condition of the loop fails. *)
WalkEnd ==
  /\ pc = "walking"
  /\ ~dateLessEq(walk.current, walk.lastDate)
  /\ pc' = "walked"
  /\ UNCHANGED <<txns, categorized, awards, description, category, kw, matched,
               streakVars, pageVars, walk>>

NextWalk == CategorizeTransactions \/ WalkStart \/ WalkStep \/ WalkEnd

SpecWalk == InitWalk /\ [][NextWalk]_vars

(* The window the statement is dated in, and the days of it from the       *)
(* earliest to the latest transaction date.                                *)
WindowOf(ts) == CHOOSE w \in Windows : \A i \in 1..Len(ts) : ts[i].date \in Range(w)

PositionIn(w, date) == CHOOSE k \in 1..Len(w) : w[k] = date

DaysOf(ts) ==
  LET w == WindowOf(ts)
      ps == {PositionIn(w, ts[i].date) : i \in 1..Len(ts)}
  IN  SubSeq(w, Min(ps), Max(ps))

IsPrefix(s, t) == Len(s) <= Len(t) /\ s = SubSeq(t, 1, Len(s))

(* C23: on a non-empty statement the walk visits the calendar days from    *)
(* the first to the last transaction date, each once and in increasing     *)
(* order, across month and year ends: while it runs the days visited are   *)
(* the first of these days, and when it ends they are all of them.         *)
C23_WalkVisitsEveryDay ==
  Len(txns) # 0 =>
    /\ pc = "walking" => IsPrefix(walk.visited, DaysOf(txns))
    /\ pc = "walked" => walk.visited = DaysOf(txns)

=============================================================================
